---- MODULE Spec2Model ----
(***************************************************************************)
(* Model of the scoring pipeline of the MTG draft analyzer: CardScorer,    *)
(* IrregularityDetector, Calibrator, ColorScorer and the MetaAnalyzer      *)
(* orchestrator.                                                           *)
(*                                                                         *)
(* Numbers are fixed point integers:                                       *)
(*   win rates and deviations  in basis points (1 = 0.0001)                *)
(*   ALSA                      in tenths of a pick (70 = 7.0)              *)
(*   Z-scores                  in thousandths (1000 = 1.0)                 *)
(*   composite scores          in thousandths of a point (50000 = 50.0)    *)
(* An absent Optional[float] is the value None.                            *)
(***************************************************************************)
EXTENDS Integers, Sequences, FiniteSets, TLC

VARIABLES
    op,                     \* the operation that produced the current state
    card_stats,             \* list[CardStats] the operation worked on
    target,                 \* index in card_stats of the card passed as `card`, 0 if none
    thresholds,             \* ThresholdConfig handed to the operation or calibrated by it
    detector,               \* the IrregularityDetector in use (NoDetector: none)
    result,                 \* what the operation returned (or Raised)
    scored,                 \* list[Card] as scored, enriched and analyzed so far
    pairs,                  \* list[ColorPair] from the loader
    arch_ratings,           \* archetype ratings from the loader, as (colors, ratings) items
    irregularity_detector,  \* MetaAnalyzer.irregularity_detector
    snapshot,               \* what the latest MetaAnalyzer.analyze() returned
    calls,                  \* number of analyze() calls made on the MetaAnalyzer
    self_config             \* settings of the object the operation is called on (Nothing: defaults)

vars == <<op, card_stats, target, thresholds, detector, result, scored,
          pairs, arch_ratings, irregularity_detector, snapshot, calls, self_config>>

----------------------------------------------------------------------------
(* Bounds of the model *)

MaxExtra == 2       \* cards added in front of the reference population
MaxCalls == 2       \* analyze() calls on one MetaAnalyzer

----------------------------------------------------------------------------
(* Values *)

None == -1000000
NoDetector == [none |-> TRUE]
Nothing == [none |-> TRUE]

IsNone(x) == x = None

Max(a, b) == IF a >= b THEN a ELSE b
Min(a, b) == IF a <= b THEN a ELSE b

\* the element of a one element set: TheOne({F(x) : x \in {e}}) is F(e) with e
\* evaluated once
TheOne(S) == CHOOSE x \in S : TRUE

RECURSIVE SumFrom(_, _)
SumFrom(s, i) == IF i > Len(s) THEN 0 ELSE s[i] + SumFrom(s, i + 1)

\* sum(s)
SumSeq(s) == TheOne({SumFrom(list, 1) : list \in {s}})

RECURSIVE SelectIdx(_, _, _)
\* the indices i of 1..n, ascending, that are in keep
SelectIdx(i, n, keep) ==
    IF i > n THEN <<>>
    ELSE IF i \in keep THEN <<i>> \o SelectIdx(i + 1, n, keep)
    ELSE SelectIdx(i + 1, n, keep)

\* list comprehension [x for x in s if Test(x)]
Filter(s, Test(_)) ==
    TheOne({TheOne({[k \in 1..Len(idx) |-> list[idx[k]]] \o <<>> :
                       idx \in {SelectIdx(1, Len(list),
                                          {i \in 1..Len(list) : Test(list[i])})}}) :
               list \in {s}})

\* list comprehension [F(x) for x in s]
Map(s, F(_)) == TheOne({[i \in 1..Len(list) |-> F(list[i])] \o <<>> : list \in {s}})

\* list.sort(key=Key, reverse=True): stable, equal keys keep their order
SortDesc(s, Key(_)) ==
    LET Pos(keys, i) ==
            1 + Cardinality({j \in 1..Len(keys) : keys[j] > keys[i]})
              + Cardinality({j \in 1..Len(keys) : j < i /\ keys[j] = keys[i]})
        Sorted(list, keys) ==
            [p \in 1..Len(list) |->
                list[CHOOSE i \in 1..Len(list) : Pos(keys, i) = p]] \o <<>>
    IN  TheOne({TheOne({Sorted(list, keys) :
                           keys \in {[i \in 1..Len(list) |-> Key(list[i])] \o <<>>}}) :
                   list \in {s}})

\* list.sort(key=Key): stable
SortAsc(s, Key(_)) ==
    LET Pos(keys, i) ==
            1 + Cardinality({j \in 1..Len(keys) : keys[j] < keys[i]})
              + Cardinality({j \in 1..Len(keys) : j < i /\ keys[j] = keys[i]})
        Sorted(list, keys) ==
            [p \in 1..Len(list) |->
                list[CHOOSE i \in 1..Len(list) : Pos(keys, i) = p]] \o <<>>
    IN  TheOne({TheOne({Sorted(list, keys) :
                           keys \in {[i \in 1..Len(list) |-> Key(list[i])] \o <<>>}}) :
                   list \in {s}})

RECURSIVE ISqrtIter(_, _)
ISqrtIter(n, x) ==
    LET y == (x + n \div x) \div 2
    IN  IF y >= x THEN x ELSE ISqrtIter(n, y)

\* math.sqrt on the fixed point grid: the floor of the square root
ISqrt(n) == IF n = 0 THEN 0 ELSE ISqrtIter(n, Min(n, 46340))

----------------------------------------------------------------------------
(* models/card.py *)

Colors == <<"W", "U", "B", "R", "G">>

Rarities == {"common", "uncommon", "rare", "mythic"}

NoArchetypes == [a \in {} |-> 0]

\* CardStats(...) with the dataclass defaults for everything not given
CardStats(name, colors, rarity, gih_wr, gih_games, gih_wins, alsa) ==
    [name |-> name, colors |-> colors, rarity |-> rarity,
     seen_count |-> 0, pick_count |-> 0, game_count |-> 0,
     deck_wr |-> None, alsa |-> alsa,
     gih_wr |-> gih_wr, gih_games |-> gih_games, gih_wins |-> gih_wins,
     gns_wr |-> None, oh_wr |-> None, oh_games |-> 0,
     gd_wr |-> None, gd_games |-> 0,
     has_valid_wr |-> ~IsNone(gih_wr),
     archetype_wrs |-> NoArchetypes, archetype_games |-> NoArchetypes]

\* CardStats.pick_rate, in basis points of the ratio
pick_rate(c) ==
    IF c.seen_count = 0 THEN 0 ELSE (c.pick_count * 10000) \div c.seen_count

\* CardStats.iwd
iwd(c) ==
    IF IsNone(c.gih_wr) \/ IsNone(c.gns_wr) THEN None ELSE c.gih_wr - c.gns_wr

\* Card(stats=..., ...) with the dataclass defaults for everything not given
Card(stats, composite_score, grade, adjusted_gih_wr, irregularity_type) ==
    [stats |-> stats, composite_score |-> composite_score, grade |-> grade,
     adjusted_gih_wr |-> adjusted_gih_wr,
     viable_archetypes |-> 0, best_archetype |-> None,
     off_archetype_penalty |-> 0, natural_premium |-> None,
     irregularity_type |-> irregularity_type, irregularity_z |-> 0]

----------------------------------------------------------------------------
(* scoring/card_scorer.py: statistics primitives *)

ValueError == -2000001
ZeroDivisionError == -2000002
TypeError == -2000003
AttributeError == -2000004

IsError(x) == x <= -2000000

\* the first error of a list of numbers, or 0 when there is none
FirstError(s) ==
    LET First(list) ==
            IF \E i \in 1..Len(list) : IsError(list[i])
            THEN list[CHOOSE i \in 1..Len(list) :
                         IsError(list[i]) /\ \A j \in 1..(i - 1) : ~IsError(list[j])]
            ELSE 0
    IN  TheOne({First(list) : list \in {s}})

\* z = 1.96: z in hundredths, z**2 in ten-thousandths
WilsonZ == 196
WilsonZ2 == WilsonZ * WilsonZ

\* the upper end of the Wilson interval: centre + adjustment
wilson_score_upper_bound(wins, games) ==
    IF games = 0 THEN 5000
    ELSE LET pq     == wins * (games - wins)
             inner  == (pq \div games) * 1000000
                        + ((pq % games) * 1000000) \div games
                        + (WilsonZ2 * 100) \div 4
         IN  IF inner < 0 THEN ValueError
             ELSE LET adj == WilsonZ * ISqrt(inner)
                      num == wins * 100000 + (WilsonZ2 * 10) \div 2 + adj
                      den == games * 100 + WilsonZ2 \div 100
                  IN  (num * 10) \div den

\* wilson_score_lower_bound(wins, games), in basis points.
\* (centre - adjustment) / denominator, numerator and denominator times games:
\*   (wins + z^2/2 - z*sqrt(wins*(games-wins)/games + z^2/4)) / (games + z^2)
wilson_score_lower_bound(wins, games) ==
    IF games = 0 THEN 5000
    ELSE LET pq     == wins * (games - wins)
             \* wins*(games-wins)/games + z^2/4, in millionths
             inner  == (pq \div games) * 1000000
                        + ((pq % games) * 1000000) \div games
                        + (WilsonZ2 * 100) \div 4
         IN  IF inner < 0 THEN ValueError
             ELSE LET adj == WilsonZ * ISqrt(inner)            \* in 1e-5
                      num == wins * 100000 + (WilsonZ2 * 10) \div 2 - adj
                      den == games * 100 + WilsonZ2 \div 100    \* in 1e-2
                  IN  (num * 10) \div den

\* statistics.mean
mean(values) == TheOne({SumSeq(data) \div Len(data) : data \in {values}})

\* statistics.stdev: sample (n-1) standard deviation
stdev(values) ==
    LET Deviation(data, m) ==
            ISqrt(SumSeq([i \in 1..Len(data) |-> (data[i] - m) * (data[i] - m)])
                      \div (Len(data) - 1))
    IN  TheOne({TheOne({Deviation(data, m) : m \in {mean(data)}}) : data \in {values}})

z_score_reversed(value, values) ==
    IF Len(values) < 2 THEN 0
    ELSE LET m   == mean(values)
             std == stdev(values)
         IN  IF std = 0 THEN 0
             ELSE ((m - value) * 1000) \div std

\* z_score(value, values), in thousandths
z_score(value, values) ==
    IF Len(values) < 2 THEN 0
    ELSE LET m   == mean(values)
             std == stdev(values)
         IN  IF std = 0 THEN 0
             ELSE ((value - m) * 1000) \div std

----------------------------------------------------------------------------
(* scoring/card_scorer.py: CardScorer with its default configuration *)

\* CardScorer.DEFAULT_WEIGHTS, in hundredths
DEFAULT_WEIGHTS ==
    [gih_wr |-> 45, iwd |-> 20, alsa_inverse |-> 15, oh_wr |-> 10, gd_wr |-> 10]

\* CardScorer.GRADE_THRESHOLDS, in dict order
GRADE_THRESHOLDS ==
    << <<"A+", 90>>, <<"A", 80>>, <<"B+", 70>>, <<"B", 60>>,
       <<"C+", 50>>, <<"C", 40>>, <<"D", 30>>, <<"F", 0>> >>

ScorerMinGames == 500       \* CardScorer.min_games
ScaleCenter == 50           \* CardScorer.scale_center
ScaleMultiplier == 15       \* CardScorer.scale_multiplier
ScorerFallbackFloor == 10   \* below this many cards the scorer uses every card with a win rate
MinOhGames == 100           \* opening hand / drawn win rates need this many games

\* CardScorer.calculate_bayesian_wr
calculate_bayesian_wr(card) ==
    IF IsNone(card.gih_wr) THEN 5000
    ELSE wilson_score_lower_bound(card.gih_wins, card.gih_games)

HasWr(c) == ~IsNone(c.gih_wr)
ScorerValid(c) == c.gih_games >= ScorerMinGames /\ ~IsNone(c.gih_wr)
HasIwd(c) == ~IsNone(iwd(c))
HasOh(c) == c.oh_games >= MinOhGames /\ ~IsNone(c.oh_wr)
HasGd(c) == c.gd_games >= MinOhGames /\ ~IsNone(c.gd_wr)
AlsaInverse(c) == 140 - c.alsa
OhWr(c) == c.oh_wr
GdWr(c) == c.gd_wr

NoClamp(scaled) == scaled

\* max(0, min(100, scaled))
ClampScore(scaled) == Max(0, Min(100000, scaled))

\* CardScorer.calculate_composite_score, in thousandths of a point
calculate_composite_score(card, all_cards) ==
    IF IsNone(card.gih_wr) THEN 0
    ELSE
    LET preferred   == Filter(all_cards, ScorerValid)
        valid_cards == IF Len(preferred) < ScorerFallbackFloor
                       THEN Filter(all_cards, HasWr) ELSE preferred
    IN  IF Len(valid_cards) < 2 THEN ScaleCenter * 1000
        ELSE
        LET adj_wrs       == Map(valid_cards, calculate_bayesian_wr)
            card_adj_wr   == calculate_bayesian_wr(card)
            iwds          == Map(Filter(valid_cards, HasIwd), iwd)
            alsa_inverses == Map(valid_cards, AlsaInverse)
            oh_wrs        == Map(Filter(valid_cards, HasOh), OhWr)
            gd_wrs        == Map(Filter(valid_cards, HasGd), GdWr)
            z_scores ==
                [gih_wr |-> z_score(card_adj_wr, adj_wrs),
                 iwd |-> IF iwds # <<>> /\ ~IsNone(iwd(card))
                         THEN z_score(iwd(card), iwds) ELSE 0,
                 alsa_inverse |-> z_score(AlsaInverse(card), alsa_inverses),
                 oh_wr |-> IF oh_wrs # <<>> /\ ~IsNone(card.oh_wr)
                           THEN z_score(card.oh_wr, oh_wrs) ELSE 0,
                 gd_wr |-> IF gd_wrs # <<>> /\ ~IsNone(card.gd_wr)
                           THEN z_score(card.gd_wr, gd_wrs) ELSE 0]
            \* sum(weight * z), weights in hundredths
            raw_score == (DEFAULT_WEIGHTS.gih_wr * z_scores.gih_wr
                          + DEFAULT_WEIGHTS.iwd * z_scores.iwd
                          + DEFAULT_WEIGHTS.alsa_inverse * z_scores.alsa_inverse
                          + DEFAULT_WEIGHTS.oh_wr * z_scores.oh_wr
                          + DEFAULT_WEIGHTS.gd_wr * z_scores.gd_wr) \div 100
            scaled    == ScaleCenter * 1000 + raw_score * ScaleMultiplier
        IN  IF IsError(FirstError(adj_wrs)) THEN FirstError(adj_wrs)
            ELSE IF IsError(card_adj_wr) THEN card_adj_wr
            ELSE ClampScore(scaled)

assign_grade_exclusive(score) ==
    IF \E i \in 1..Len(GRADE_THRESHOLDS) : score > GRADE_THRESHOLDS[i][2] * 1000
    THEN GRADE_THRESHOLDS[CHOOSE i \in 1..Len(GRADE_THRESHOLDS) :
            /\ score > GRADE_THRESHOLDS[i][2] * 1000
            /\ \A j \in 1..(i - 1) : score <= GRADE_THRESHOLDS[j][2] * 1000][1]
    ELSE "F"

\* CardScorer.assign_grade: the first grade of the table whose threshold the score meets
assign_grade(score) ==
    IF \E i \in 1..Len(GRADE_THRESHOLDS) : score >= GRADE_THRESHOLDS[i][2] * 1000
    THEN GRADE_THRESHOLDS[CHOOSE i \in 1..Len(GRADE_THRESHOLDS) :
            /\ score >= GRADE_THRESHOLDS[i][2] * 1000
            /\ \A j \in 1..(i - 1) : score < GRADE_THRESHOLDS[j][2] * 1000][1]
    ELSE "F"

score_card_unguarded(card, all_cards) ==
    TheOne({Card(card, score, assign_grade(score), calculate_bayesian_wr(card), "normal") :
               score \in {calculate_composite_score(card, all_cards)}})

\* CardScorer.score_card; when calculate_composite_score raises, the exception
\* stands in the composite_score of the result
score_card(card, all_cards) ==
    IF IsNone(card.gih_wr)
    THEN Card(card, 0, "N/A", 0, "no_data")
    ELSE TheOne({Card(card, score, assign_grade(score),
                      calculate_bayesian_wr(card), "normal") :
                     score \in {calculate_composite_score(card, all_cards)}})

CompositeScore(c) == c.composite_score

\* CardScorer.score_all_cards: every card scored against the whole list, then
\* sorted by composite_score descending
score_all_cards(cards) ==
    LET ScoreOne(card) == score_card(card, cards)
    IN  TheOne({SortDesc(scored_cards, CompositeScore) :
                   scored_cards \in {Map(cards, ScoreOne)}})

\* the exception that ended score_all_cards, 0 if it returned scored_cards
score_all_cards_error(scored_cards) ==
    FirstError(Map(scored_cards, CompositeScore))

----------------------------------------------------------------------------
(* contracts.py: IrregularityContract *)

output_categories == {"sleeper", "trap", "normal"}

\* IrregularityContract.validate_output: TRUE for (True, "")
validate_output(category, z) ==
    category \in output_categories /\ z \in Int

----------------------------------------------------------------------------
(* models/meta.py *)

\* ThresholdConfig(); variances in squared basis points
ThresholdConfig ==
    [synergy_variance |-> 200000, stable_variance |-> 100000,
     sleeper_z |-> 1000, trap_z |-> -1000,
     bomb_wr |-> 6000, playable_wr |-> 5000, min_games |-> 200,
     calibration_percentiles |->
         [synergy |-> 75, sleeper |-> 90, trap |-> 10, bomb |-> 95, playable |-> 50]]

----------------------------------------------------------------------------
(* scoring/irregularity.py: IrregularityDetector *)

MinPopulation == 20         \* fewer qualifying cards than this: no classification
SleeperZMin == 300          \* sanity bounds of from_thresholds
SleeperZMax == 2500
TrapZMin == -2500
TrapZMax == -300
DefaultSleeperZ == 1000
DefaultTrapZ == -1000
DetectorMinGames == 200

\* IrregularityDetector(sleeper_z_threshold, trap_z_threshold, min_games)
IrregularityDetector(sleeper_z_threshold, trap_z_threshold, min_games) ==
    [sleeper_z |-> sleeper_z_threshold, trap_z |-> trap_z_threshold,
     min_games |-> min_games]

\* IrregularityDetector()
DefaultDetector ==
    IrregularityDetector(DefaultSleeperZ, DefaultTrapZ, DetectorMinGames)

from_thresholds_unclamped(t) ==
    IrregularityDetector(t.sleeper_z, t.trap_z, t.min_games)

\* IrregularityDetector.from_thresholds
from_thresholds(t) ==
    LET sleeper_z == IF t.sleeper_z > SleeperZMax \/ t.sleeper_z < SleeperZMin
                     THEN DefaultSleeperZ ELSE t.sleeper_z
        trap_z    == IF t.trap_z < TrapZMin \/ t.trap_z > TrapZMax
                     THEN DefaultTrapZ ELSE t.trap_z
    IN  IrregularityDetector(sleeper_z, trap_z, t.min_games)

\* IrregularityDetector._calculate_expected_wr:
\* 0.50 + pick_rate * 0.12 + (7 - alsa) * 0.015
_calculate_expected_wr(card) ==
    5000 + (pick_rate(card) * 12) \div 100 + (70 - card.alsa) * 15

\* IrregularityDetector._calculate_deviation
_calculate_deviation(card) ==
    wilson_score_lower_bound(card.gih_wins, card.gih_games)
        - _calculate_expected_wr(card)

detect_irregularity_any_card(self, card, all_cards) ==
    IF IsNone(card.gih_wr) THEN <<"no_data", 0>>
    ELSE
    LET HasGames(c)  == ~IsNone(c.gih_wr)
        valid_cards  == Filter(all_cards, HasGames)
    IN  IF Len(valid_cards) < MinPopulation THEN <<"normal", 0>>
        ELSE
        LET deviations     == Map(valid_cards, _calculate_deviation)
            card_deviation == _calculate_deviation(card)
            z              == z_score(card_deviation, deviations)
        IN  IF z >= self.sleeper_z THEN <<"sleeper", z>>
            ELSE IF z <= self.trap_z THEN <<"trap", z>>
            ELSE <<"normal", z>>

\* IrregularityDetector.detect_irregularity: <<category, z>>
detect_irregularity(self, card, all_cards) ==
    IF IsNone(card.gih_wr) THEN <<"no_data", 0>>
    ELSE
    LET Qualifies(c) == c.gih_games >= self.min_games /\ ~IsNone(c.gih_wr)
        valid_cards  == Filter(all_cards, Qualifies)
    IN  IF Len(valid_cards) < MinPopulation THEN <<"normal", 0>>
        ELSE
        LET deviations     == Map(valid_cards, _calculate_deviation)
            card_deviation == _calculate_deviation(card)
            z              == z_score(card_deviation, deviations)
        IN  IF z >= self.sleeper_z THEN <<"sleeper", z>>
            ELSE IF z <= self.trap_z THEN <<"trap", z>>
            ELSE <<"normal", z>>

Stats(c) == c.stats
IrregularityZ(c) == c.irregularity_z

RECURSIVE AnalyzeLoop(_, _, _, _, _)
\* the loop of analyze_all_cards from card i on; acc holds the cards as
\* updated so far and the three lists as appended to so far
AnalyzeLoop(self, cards, stats_list, i, acc) ==
    IF i > Len(cards) THEN acc
    ELSE
    LET card == cards[i]
    IN  IF card.irregularity_type = "no_data"
        THEN AnalyzeLoop(self, cards, stats_list, i + 1,
                 [acc EXCEPT !.all_cards = Append(@, card),
                             !.no_data_cards = Append(@, card)])
        ELSE
        LET Analyzed(r) == [card EXCEPT !.irregularity_type = r[1],
                                        !.irregularity_z = r[2]]
            Appended(irr_type, analyzed, acc1) ==
                 IF irr_type = "sleeper"
                 THEN [acc1 EXCEPT !.sleepers = Append(@, analyzed)]
                 ELSE IF irr_type = "trap"
                 THEN [acc1 EXCEPT !.traps = Append(@, analyzed)]
                 ELSE IF irr_type = "no_data"
                 THEN [acc1 EXCEPT !.no_data_cards = Append(@, analyzed)]
                 ELSE acc1
        IN  TheOne({AnalyzeLoop(self, cards, stats_list, i + 1,
                        Appended(analyzed.irregularity_type, analyzed,
                                 [acc EXCEPT !.all_cards = Append(@, analyzed)])) :
                       analyzed \in {Analyzed(detect_irregularity(
                                                  self, card.stats, stats_list))}})

analyze_all_cards_unsorted(self, cards) ==
    AnalyzeLoop(self, cards, Map(cards, Stats), 1,
        [all_cards |-> <<>>, sleepers |-> <<>>,
         traps |-> <<>>, no_data_cards |-> <<>>])

\* IrregularityDetector.analyze_all_cards:
\* (all_cards, sleepers, traps, no_data_cards)
analyze_all_cards(self, cards) ==
    LET stats_list == Map(cards, Stats)
        looped == AnalyzeLoop(self, cards, stats_list, 1,
                      [all_cards |-> <<>>, sleepers |-> <<>>,
                       traps |-> <<>>, no_data_cards |-> <<>>])
    IN  [looped EXCEPT !.sleepers = SortDesc(@, IrregularityZ),
                       !.traps = SortAsc(@, IrregularityZ)]

\* the archetype win rate calculate_viability / enrich_cards_with_viability
\* take from one archetype_data entry <<colors, ratings>> for this card:
\* that of the first rating with the card's name, None when there is none,
\* it has no win rate, or it has fewer than min_games games
ArchetypeRating(entry, name, min_games) ==
    LET colors  == entry[1]
        ratings == entry[2]
        hits    == {i \in 1..Len(ratings) : ratings[i].name = name}
    IN  IF Len(colors) # 2 \/ hits = {} THEN None
        ELSE LET rating == ratings[CHOOSE i \in hits : \A j \in hits : i <= j]
             IN  IF ~IsNone(rating.ever_drawn_win_rate)
                    /\ rating.ever_drawn_game_count >= min_games
                 THEN rating.ever_drawn_win_rate ELSE None

ArchetypeGames(entry, name) ==
    LET ratings == entry[2]
        hits    == {i \in 1..Len(ratings) : ratings[i].name = name}
    IN  ratings[CHOOSE i \in hits : \A j \in hits : i <= j].ever_drawn_game_count

ViabilityMinGames == 50
ViableMargin == 500         \* within 5 percentage points of the best archetype

\* calculate_viability:
\* <<viable_archetypes, best_archetype, off_archetype_penalty, natural_premium>>
calculate_viability(card, archetype_data, min_games) ==
    LET HasData(entry) == ~IsNone(ArchetypeRating(entry, card.name, min_games))
        Wr(entry)      == ArchetypeRating(entry, card.name, min_games)
        archetype_wrs  == Filter(archetype_data, HasData)
        n              == Len(archetype_wrs)
    IN  IF n = 0 THEN <<0, None, 0, None>>
        ELSE
        LET best_i  == CHOOSE i \in 1..n :
                          /\ \A j \in 1..n : Wr(archetype_wrs[j]) <= Wr(archetype_wrs[i])
                          /\ \A j \in 1..(i - 1) : Wr(archetype_wrs[j]) < Wr(archetype_wrs[i])
            best_wr == Wr(archetype_wrs[best_i])
            best_archetype == archetype_wrs[best_i][1]
        IN  IF n = 1 THEN <<1, best_archetype, 0, None>>
            ELSE
            LET Viable(entry)  == Wr(entry) >= best_wr - ViableMargin
                NonViable(entry) == ~Viable(entry)
                non_viable_wrs == Map(Filter(archetype_wrs, NonViable), Wr)
                off_penalty    == IF non_viable_wrs # <<>>
                                  THEN best_wr - mean(non_viable_wrs) ELSE 0
                Natural(entry) == \E k \in 1..Len(card.colors) :
                                     \E m \in 1..Len(entry[1]) :
                                        entry[1][m] = card.colors[k]
                Other(entry)   == ~Natural(entry)
                natural_archs  == Filter(archetype_wrs, Natural)
                other_archs    == Filter(archetype_wrs, Other)
                natural_premium ==
                    IF card.colors # <<>> /\ natural_archs # <<>> /\ other_archs # <<>>
                    THEN mean(Map(natural_archs, Wr)) - mean(Map(other_archs, Wr))
                    ELSE None
            IN  <<Len(Filter(archetype_wrs, Viable)), best_archetype,
                  off_penalty, natural_premium>>

\* enrich_cards_with_viability on one card: the viability fields of the Card
\* and the archetype_wrs / archetype_games maps of its CardStats
EnrichCard(card, archetype_data, min_games) ==
    IF IsNone(card.stats.gih_wr) THEN card
    ELSE
    LET HasData(entry) == ~IsNone(ArchetypeRating(entry, card.stats.name, min_games))
        found == Filter(archetype_data, HasData)
        keys  == {found[i][1] : i \in 1..Len(found)}
        Last(k) == found[CHOOSE i \in 1..Len(found) :
                      found[i][1] = k /\ \A j \in (i + 1)..Len(found) : found[j][1] # k]
        wrs   == [k \in keys \cup DOMAIN card.stats.archetype_wrs |->
                    IF k \in keys
                    THEN ArchetypeRating(Last(k), card.stats.name, min_games)
                    ELSE card.stats.archetype_wrs[k]]
        games == [k \in keys \cup DOMAIN card.stats.archetype_games |->
                    IF k \in keys
                    THEN ArchetypeGames(Last(k), card.stats.name)
                    ELSE card.stats.archetype_games[k]]
    IN  TheOne({[card EXCEPT !.viable_archetypes = v[1],
                             !.best_archetype = v[2],
                             !.off_archetype_penalty = v[3],
                             !.natural_premium = v[4],
                             !.stats.archetype_wrs = wrs,
                             !.stats.archetype_games = games] :
                   v \in {calculate_viability(card.stats, archetype_data, min_games)}})

\* enrich_cards_with_viability
enrich_cards_with_viability(cards, archetype_data, min_games) ==
    LET EnrichOne(card) == EnrichCard(card, archetype_data, min_games)
    IN  Map(cards, EnrichOne)

----------------------------------------------------------------------------
(* scoring/calibration.py *)

Identity(x) == x

\* the percentile counted from the largest value down
percentile_from_top(values, p) ==
    IF values = <<>> THEN 0
    ELSE LET sorted_values == SortAsc(values, Identity)
             n == Len(sorted_values)
             k == (n - 1) * (100 - p)
             f == k \div 100
         IN  IF f >= n - 1 THEN sorted_values[n]
             ELSE sorted_values[f + 1]
                  + ((k % 100) * (sorted_values[f + 2] - sorted_values[f + 1])) \div 100

\* the percentile read off the list as it was given
percentile_unsorted(values, p) ==
    IF values = <<>> THEN 0
    ELSE LET n == Len(values)
             k == (n - 1) * p
             f == k \div 100
         IN  IF f >= n - 1 THEN values[n]
             ELSE values[f + 1] + ((k % 100) * (values[f + 2] - values[f + 1])) \div 100

\* percentile(values, p): linear interpolation between the two nearest ranks
percentile(values, p) ==
    IF values = <<>> THEN 0
    ELSE LET sorted_values == SortAsc(values, Identity)
             n == Len(sorted_values)
             k == (n - 1) * p                  \* in hundredths of a rank
             f == k \div 100
         IN  IF f >= n - 1 THEN sorted_values[n]
             ELSE sorted_values[f + 1]
                  + ((k % 100) * (sorted_values[f + 2] - sorted_values[f + 1])) \div 100

\* Calibrator().config
DefaultCalibratorConfig ==
    [synergy_percentile |-> 75, sleeper_percentile |-> 90, trap_percentile |-> 10,
     bomb_percentile |-> 95, playable_percentile |-> 35]

CalibratorMinGames == 200
DefaultDeviationStd == 300      \* 0.03
DefaultSynergyVariance == 200000 \* 0.002

CalibratorValid(c) == c.gih_games >= CalibratorMinGames

\* the exception Calibrator.calibrate raises, 0 if none: `c.gih_wr > 0` on a
\* card with enough games and no win rate compares None with an int
calibrate_error(cards) ==
    IF \E i \in 1..Len(cards) : CalibratorValid(cards[i]) /\ IsNone(cards[i].gih_wr)
    THEN TypeError ELSE 0

\* statistics.variance of the values of a dict
DictVariance(d) ==
    LET keys == DOMAIN d
        n    == Cardinality(keys)
        RECURSIVE Total(_)
        Total(ks) == IF ks = {} THEN 0
                     ELSE LET k == CHOOSE x \in ks : TRUE
                          IN  d[k] + Total(ks \ {k})
        m    == Total(keys) \div n
        RECURSIVE Squares(_)
        Squares(ks) == IF ks = {} THEN 0
                       ELSE LET k == CHOOSE x \in ks : TRUE
                            IN  (d[k] - m) * (d[k] - m) + Squares(ks \ {k})
    IN  Squares(keys) \div (n - 1)

\* the expected win rate used inside Calibrator.calibrate:
\* 0.50 + pick_rate * 0.12 - (alsa - 7) * 0.01
CalibratorExpectedWr(card) ==
    5000 + (pick_rate(card) * 12) \div 100 - (card.alsa - 70) * 10

CalibratorDeviation(card) == card.gih_wr - CalibratorExpectedWr(card)

\* Calibrator.calibrate (when it does not raise)
calibrate(config, cards) ==
    IF cards = <<>> THEN ThresholdConfig
    ELSE
    LET valid_cards == Filter(cards, CalibratorValid)
        Positive(c) == c.gih_wr > 0
        GihWr(c)    == c.gih_wr
        gih_wrs     == Map(Filter(valid_cards, Positive), GihWr)
    IN  IF gih_wrs = <<>> THEN ThresholdConfig
        ELSE
        LET HasVariance(c) == Cardinality(DOMAIN c.archetype_wrs) >= 3
            Variance(c)    == DictVariance(c.archetype_wrs)
            variances      == Map(Filter(valid_cards, HasVariance), Variance)
            deviations     == Map(valid_cards, CalibratorDeviation)
            deviation_mean == mean(deviations)
            deviation_std  == IF Len(deviations) > 1 THEN stdev(deviations)
                              ELSE DefaultDeviationStd
            synergy_variance == IF variances # <<>>
                                THEN percentile(variances, config.synergy_percentile)
                                ELSE DefaultSynergyVariance
            dev_std  == IF deviation_std > 0 THEN deviation_std ELSE DefaultDeviationStd
            sleeper_deviation == percentile(deviations, config.sleeper_percentile)
            trap_deviation    == percentile(deviations, config.trap_percentile)
        IN  [synergy_variance |-> synergy_variance,
             stable_variance |-> synergy_variance \div 2,
             sleeper_z |-> ((sleeper_deviation - deviation_mean) * 1000) \div dev_std,
             trap_z |-> ((trap_deviation - deviation_mean) * 1000) \div dev_std,
             bomb_wr |-> percentile(gih_wrs, config.bomb_percentile),
             playable_wr |-> percentile(gih_wrs, config.playable_percentile),
             min_games |-> CalibratorMinGames,
             calibration_percentiles |-> config]

----------------------------------------------------------------------------
(* models/archetype.py, scoring/color_scorer.py: ColorScorer with its default
   configuration *)

\* ColorPair(colors, wins, games, win_rate)
ColorPair(colors, wins, games) ==
    [colors |-> colors, wins |-> wins, games |-> games,
     win_rate |-> IF games > 0 THEN (wins * 10000) \div games ELSE 0,
     is_computed |-> FALSE]

\* ColorStrength(color=color)
ColorStrength(color) ==
    [color |-> color, strength_score |-> 0, rank |-> 0,
     deck_wr_strength |-> 0, archetype_success |-> 0,
     top_common_avg |-> 0, top_uncommon_avg |-> 0,
     bomb_factor |-> 0, depth_factor |-> 0,
     playable_count |-> 0, total_cards |-> 0,
     top_commons |-> <<>>, top_uncommons |-> <<>>, top_rares |-> <<>>]

\* ColorScorer.DEFAULT_WEIGHTS, in hundredths
COLOR_WEIGHTS ==
    [deck_wr_strength |-> 35, archetype_success |-> 25, top_common_avg |-> 15,
     top_uncommon_avg |-> 10, bomb_factor |-> 10, depth_factor |-> 5]

\* ColorScorer.DEFAULT_TOP_N
DEFAULT_TOP_N == [common |-> 10, uncommon |-> 5, rare |-> 3]

StabilityWeightMin == 800       \* 0.80
StabilityWeightMax == 1000      \* 1.00
PlayableThreshold == 50000      \* 50.0
BombFloor == 70000              \* only scores above 70 count for the bomb factor
DeckWrMinGames == 200

\* `color in c.colors`
HasColor(colors, color) == \E k \in 1..Len(colors) : colors[k] = color

\* s[:n]
Take(s, n) == TheOne({SubSeq(list, 1, Min(n, Len(list))) : list \in {s}})

CardName(c) == c.stats.name

\* ColorScorer._get_stability_weight, in thousandths: reads card.stability_score,
\* an attribute the Card dataclass does not have
_get_stability_weight(card) ==
    IF "stability_score" \in DOMAIN card
    THEN StabilityWeightMin
         + (card.stability_score * (StabilityWeightMax - StabilityWeightMin)) \div 100000
    ELSE AttributeError

\* ColorScorer._calculate_top_avg: <<avg, names>>, avg an exception when the
\* stability weight of a top card cannot be read
_calculate_top_avg(cards, rarity, top_n) ==
    LET OfRarity(c)  == c.stats.rarity = rarity
        rarity_cards == SortDesc(Filter(cards, OfRarity), CompositeScore)
        TopAvg(top_cards, weights) ==
            IF IsError(FirstError(weights)) THEN <<FirstError(weights), <<>> >>
            ELSE <<mean([i \in 1..Len(top_cards) |->
                            (top_cards[i].composite_score * weights[i]) \div 1000]),
                   Map(top_cards, CardName)>>
    IN  TheOne({IF top_cards = <<>> THEN <<0, <<>> >>
                ELSE TheOne({TopAvg(top_cards, weights) :
                                weights \in {Map(top_cards, _get_stability_weight)}}) :
                   top_cards \in {Take(rarity_cards, top_n)}})

\* ColorScorer._calculate_bomb_factor: <<factor * 100, names>>
_calculate_bomb_factor(cards) ==
    LET RareMythic(c) == c.stats.rarity \in {"rare", "mythic"}
        top_n         == DEFAULT_TOP_N.rare
        Excess(c)     == Max(0, c.composite_score - BombFloor)
        \* sum / (top_n * 30), capped at 1.0, times 100
        Factor(bomb_scores) == Min(100000, (SumSeq(bomb_scores) * 100) \div (top_n * 30))
    IN  TheOne({IF rare_mythic = <<>> THEN <<0, <<>> >>
                ELSE TheOne({<<Factor(Map(top_bombs, Excess)), Map(top_bombs, CardName)>> :
                                top_bombs \in {Take(rare_mythic, top_n)}}) :
                   rare_mythic \in {SortDesc(Filter(cards, RareMythic), CompositeScore)}})

Playable(c) == c.composite_score >= PlayableThreshold

\* ColorScorer._calculate_depth_factor
_calculate_depth_factor(cards) == Min(100000, Len(Filter(cards, Playable)) * 5000)

\* ColorScorer._calculate_deck_wr_strength; `c.stats.deck_wr > 0` on a mono
\* coloured card without a deck win rate compares None with an int
_calculate_deck_wr_strength(color, cards) ==
    LET Mono(c) == c.stats.colors = <<color>>
        Counted(c) == Mono(c) /\ c.stats.deck_wr > 0 /\ c.stats.game_count >= DeckWrMinGames
        mono_cards == Filter(cards, Counted)
        Games(c)   == c.stats.game_count
        Weighted(c) == c.stats.deck_wr * c.stats.game_count
    IN  IF \E i \in 1..Len(cards) : Mono(cards[i]) /\ IsNone(cards[i].stats.deck_wr)
        THEN TypeError
        ELSE IF mono_cards = <<>> THEN 50000
        ELSE (SumSeq(Map(mono_cards, Weighted)) \div SumSeq(Map(mono_cards, Games))) * 10

\* the exception ColorScorer.calculate_color_strength raises, 0 if none
calculate_color_strength_error(color, cards, color_pairs) ==
    LET InColor(c)  == HasColor(c.stats.colors, color)
        Error(color_cards) ==
            FirstError(<<_calculate_top_avg(color_cards, "common", DEFAULT_TOP_N.common)[1],
                         _calculate_top_avg(color_cards, "uncommon",
                                            DEFAULT_TOP_N.uncommon)[1],
                         _calculate_deck_wr_strength(color, color_cards)>>)
    IN  TheOne({IF color_cards = <<>> THEN 0 ELSE Error(color_cards) :
                   color_cards \in {Filter(cards, InColor)}})

\* ColorScorer.calculate_color_strength (when it does not raise)
calculate_color_strength(color, cards, color_pairs) ==
    LET InColor(c)  == HasColor(c.stats.colors, color)
        Relevant(cp) == HasColor(cp.colors, color) /\ Len(cp.colors) = 2
        WinRate(cp)  == cp.win_rate
        ArchetypeSuccess(relevant_pairs) ==
            IF relevant_pairs # <<>> THEN mean(Map(relevant_pairs, WinRate)) * 10 ELSE 0
        Strength(color_cards, top_common, top_uncommon, bomb, depth_factor,
                 deck_wr_strength, archetype_success) ==
            [color |-> color,
             strength_score |->
                 (COLOR_WEIGHTS.deck_wr_strength * deck_wr_strength
                  + COLOR_WEIGHTS.archetype_success * archetype_success
                  + COLOR_WEIGHTS.top_common_avg * top_common[1]
                  + COLOR_WEIGHTS.top_uncommon_avg * top_uncommon[1]
                  + COLOR_WEIGHTS.bomb_factor * bomb[1]
                  + COLOR_WEIGHTS.depth_factor * depth_factor) \div 100,
             rank |-> 0,
             deck_wr_strength |-> deck_wr_strength,
             archetype_success |-> archetype_success,
             top_common_avg |-> top_common[1],
             top_uncommon_avg |-> top_uncommon[1],
             bomb_factor |-> bomb[1], depth_factor |-> depth_factor,
             playable_count |-> Len(Filter(color_cards, Playable)),
             total_cards |-> Len(color_cards),
             top_commons |-> top_common[2], top_uncommons |-> top_uncommon[2],
             top_rares |-> bomb[2]]
        Computed(color_cards) ==
            TheOne({Strength(color_cards, top_common, top_uncommon, bomb, depth_factor,
                             deck_wr_strength, archetype_success) :
                       top_common \in {_calculate_top_avg(color_cards, "common",
                                                          DEFAULT_TOP_N.common)},
                       top_uncommon \in {_calculate_top_avg(color_cards, "uncommon",
                                                            DEFAULT_TOP_N.uncommon)},
                       bomb \in {_calculate_bomb_factor(color_cards)},
                       depth_factor \in {_calculate_depth_factor(color_cards)},
                       deck_wr_strength \in {_calculate_deck_wr_strength(color, color_cards)},
                       archetype_success \in
                           {ArchetypeSuccess(Filter(color_pairs, Relevant))}})
    IN  TheOne({IF color_cards = <<>> THEN ColorStrength(color)
                ELSE Computed(color_cards) :
                   color_cards \in {Filter(cards, InColor)}})

StrengthScore(s) == s.strength_score

\* the exception ColorScorer.calculate_all_color_strengths raises, 0 if none:
\* that of the first colour, in WUBRG order, whose strength cannot be computed
calculate_all_color_strengths_error(cards, color_pairs) ==
    FirstError([i \in 1..Len(Colors) |->
                   calculate_color_strength_error(Colors[i], cards, color_pairs)])

\* ColorScorer.calculate_all_color_strengths (when it does not raise): the five
\* strengths sorted by strength_score descending, ranks 1..5 in that order
calculate_all_color_strengths(cards, color_pairs) ==
    LET strengths == [i \in 1..Len(Colors) |->
                         calculate_color_strength(Colors[i], cards, color_pairs)]
        sorted    == SortDesc(strengths, StrengthScore)
    IN  [i \in 1..Len(sorted) |-> [sorted[i] EXCEPT !.rank = i]]

----------------------------------------------------------------------------
(* Card lists the loader can hand to the pipeline: a reference population as
   in tests/test_contracts.py (n cards with 1000 games each, win rates
   0.50 + i * step) behind up to MaxExtra cards of special interest *)

RefGames == 1000

ExtraKinds ==
    <<"no_data", "no_data_games", "zero_games", "extreme", "dud", "strong", "weak">>

\* the card of a kind, named name
ExtraCard(kind, name, rarity) ==
    CASE kind = "no_data" ->
            \* colourless, win rate hidden by the API, no games
            CardStats(name, <<>>, rarity, None, 0, 0, 70)
      [] kind = "no_data_games" ->
            \* win rate hidden by the API, game count given
            CardStats(name, <<"B">>, rarity, None, 300, 0, 70)
      [] kind = "zero_games" ->
            CardStats(name, <<"B">>, rarity, 0, 0, 0, 70)
      [] kind = "extreme" ->
            \* won every one of a few games
            [CardStats(name, <<"G">>, "mythic", 10000, 100, 100, 70)
                EXCEPT !.deck_wr = 6000, !.game_count = 400]
      [] kind = "dud" ->
            \* lost every one of a few games
            CardStats(name, <<"B">>, rarity, 0, 100, 0, 70)
      [] kind = "strong" ->
            \* wins a lot and goes late
            [CardStats(name, <<"R">>, rarity, 6500, RefGames, 650, 90)
                EXCEPT !.seen_count = 100, !.pick_count = 10,
                       !.gns_wr = 5000, !.oh_wr = 6600, !.oh_games = 400,
                       !.gd_wr = 6400, !.gd_games = 600,
                       !.deck_wr = 5800, !.game_count = 2000]
      [] kind = "weak" ->
            \* loses a lot and goes early
            [CardStats(name, <<"W", "U">>, rarity, 4000, RefGames, 400, 20)
                EXCEPT !.seen_count = 100, !.pick_count = 80,
                       !.gns_wr = 5500, !.oh_wr = 3900, !.oh_games = 400,
                       !.gd_wr = 4100, !.gd_games = 600,
                       !.deck_wr = 4800, !.game_count = 2000]

\* reference card i of a population
RefCard(i, d) ==
    LET wr   == 5000 + d.step * (i - 1)
        base == CardStats(100 + i, <<"U">>, d.rarity, wr, d.games,
                          (d.games * wr) \div 10000, 70)
    IN  IF d.full
        THEN [base EXCEPT !.gns_wr = 5200, !.oh_wr = wr - 50, !.oh_games = 400,
                          !.gd_wr = wr + 50, !.gd_games = 600,
                          !.deck_wr = 5400, !.game_count = 2000]
        ELSE base

\* the card list of dataset d: the extra cards, then the reference cards
CardsOf(d) ==
    [i \in 1..(Len(d.extras) + d.n) |->
        IF i <= Len(d.extras)
        THEN ExtraCard(ExtraKinds[d.extras[i]], i, d.rarity)
        ELSE RefCard(i - Len(d.extras), d)] \o <<>>

\* the choices of at most m extra cards, as non-decreasing lists of kinds
ExtrasUpTo(m, kinds) ==
    UNION {{s \in [1..k -> kinds] : \A i \in 1..k : \A j \in i..k : s[i] <= s[j]}
           : k \in 0..m}

AllKinds == 1..Len(ExtraKinds)
DetectorKinds == {k \in AllKinds : ExtraKinds[k] \notin {"extreme", "dud"}}

ScorerDatasets ==
    [n : {0, 1, 9, 10, 20}, step : {0, 100}, games : {RefGames}, rarity : {"common"},
     full : BOOLEAN, extras : ExtrasUpTo(MaxExtra, AllKinds) \ {<<>>}]

DetectorDatasets ==
    [n : {MinPopulation - 1, MinPopulation}, step : {0, 100}, games : {RefGames},
     rarity : {"common"}, full : {FALSE}, extras : ExtrasUpTo(MaxExtra, DetectorKinds)]

\* detectors built with IrregularityDetector(...): the default one, the two
\* extremes from_thresholds lets through, and one with the thresholds swapped
DetectorInputs ==
    {DefaultDetector,
     IrregularityDetector(SleeperZMin, TrapZMax, DetectorMinGames),
     IrregularityDetector(SleeperZMax, TrapZMin, DetectorMinGames),
     IrregularityDetector(-200, 200, DetectorMinGames)}

\* the detectors whole card lists are analyzed with
AnalyzeDetectors ==
    {DefaultDetector,
     IrregularityDetector(SleeperZMin, TrapZMax, DetectorMinGames)}

----------------------------------------------------------------------------
(* Operations *)

\* nothing computed yet
Idle ==
    /\ target = 0
    /\ thresholds = Nothing
    /\ detector = NoDetector
    /\ result = Nothing
    /\ scored = <<>>
    /\ pairs = <<>>
    /\ arch_ratings = <<>>
    /\ irregularity_detector = NoDetector
    /\ snapshot = Nothing
    /\ calls = 0
    /\ self_config = Nothing

\* scorer.calculate_composite_score(card_stats[i], card_stats)
CalculateCompositeScore ==
    /\ op = "input"
    /\ \E i \in 1..Len(card_stats) :
          /\ target' = i
          /\ result' = calculate_composite_score(card_stats[i], card_stats)
    /\ op' = "calculate_composite_score"
    /\ UNCHANGED <<card_stats, thresholds, detector, scored, pairs,
                   arch_ratings, irregularity_detector, snapshot, calls, self_config>>

\* scorer.score_all_cards(card_stats)
ScoreAllCards ==
    /\ op = "input"
    /\ card_stats # <<>>
    /\ \E scored_cards \in {score_all_cards(card_stats)} :
          \E error \in {score_all_cards_error(scored_cards)} :
             IF IsError(error)
             THEN /\ result' = error
                  /\ op' = "raised"
                  /\ UNCHANGED scored
             ELSE /\ scored' = scored_cards
                  /\ op' = "score_all_cards"
                  /\ UNCHANGED result
    /\ UNCHANGED <<card_stats, target, thresholds, detector, pairs,
                   arch_ratings, irregularity_detector, snapshot, calls, self_config>>

InitScorer ==
    /\ op = "input"
    /\ \E d \in ScorerDatasets : card_stats = CardsOf(d)
    /\ Idle

NextScorer == CalculateCompositeScore \/ ScoreAllCards

SpecScorer == InitScorer /\ [][NextScorer]_vars

\* detector.detect_irregularity(card_stats[i], card_stats)
DetectIrregularity ==
    /\ op = "input"
    /\ \E self \in DetectorInputs : \E i \in 1..Len(card_stats) :
          /\ detector' = self
          /\ target' = i
          /\ result' = detect_irregularity(self, card_stats[i], card_stats)
    /\ op' = "detect_irregularity"
    /\ UNCHANGED <<card_stats, thresholds, scored, pairs, arch_ratings,
                   irregularity_detector, snapshot, calls, self_config>>

Rating(name, games, wr) ==
    [name |-> name, ever_drawn_game_count |-> games, ever_drawn_win_rate |-> wr]

\* archetype ratings as fetch_all_archetype_ratings returns them: none, and
\* ratings of the first card of the list and of two reference cards
ArchetypeInputs ==
    {<<>>,
     << << <<"W", "U">>, <<Rating(1, 120, 5600), Rating(101, 300, 5300),
                           Rating(102, 40, 5900)>> >>,
        << <<"U", "B">>, <<Rating(1, 90, 5000), Rating(101, 200, 5350)>> >>,
        << <<"B", "R">>, <<Rating(1, 60, 6200), Rating(101, 80, None),
                           Rating(102, 75, 4700)>> >>,
        << <<"W", "U", "B">>, <<Rating(1, 500, 7000)>> >> >>}

\* enrich_cards_with_viability(scored, arch_ratings)
EnrichCardsWithViability ==
    /\ op = "score_all_cards"
    /\ \E ad \in ArchetypeInputs :
          /\ arch_ratings' = ad
          /\ scored' = enrich_cards_with_viability(scored, ad, ViabilityMinGames)
    /\ op' = "enrich_cards_with_viability"
    /\ UNCHANGED <<card_stats, target, thresholds, detector, result, pairs,
                   irregularity_detector, snapshot, calls, self_config>>

\* detector.analyze_all_cards(scored)
AnalyzeAllCards ==
    /\ op = "enrich_cards_with_viability"
    /\ \E self \in AnalyzeDetectors :
          /\ detector' = self
          /\ result' = analyze_all_cards(self, scored)
          /\ scored' = result'.all_cards
    /\ op' = "analyze_all_cards"
    /\ UNCHANGED <<card_stats, target, thresholds, pairs, arch_ratings,
                   irregularity_detector, snapshot, calls, self_config>>

InitDetector ==
    /\ op = "input"
    /\ \E d \in DetectorDatasets : card_stats = CardsOf(d)
    /\ Idle

NextDetector ==
    \/ DetectIrregularity
    \/ ScoreAllCards
    \/ EnrichCardsWithViability
    \/ AnalyzeAllCards

SpecDetector == InitDetector /\ [][NextDetector]_vars

----------------------------------------------------------------------------
(* IrregularityDetector.from_thresholds on calibrated thresholds of any size *)

ZInputs ==
    {z * 50 : z \in -60..60}
        \cup {SleeperZMin - 1, SleeperZMin + 1, SleeperZMax - 1, SleeperZMax + 1}
        \cup {TrapZMin - 1, TrapZMin + 1, TrapZMax - 1, TrapZMax + 1}

FromThresholds ==
    /\ op = "input"
    /\ detector' = from_thresholds(thresholds)
    /\ op' = "from_thresholds"
    /\ UNCHANGED <<card_stats, target, thresholds, result, scored, pairs,
                   arch_ratings, irregularity_detector, snapshot, calls, self_config>>

InitThresholds ==
    /\ op = "input"
    /\ card_stats = <<>>
    /\ target = 0
    /\ \E sz \in ZInputs : \E tz \in ZInputs :
          thresholds = [ThresholdConfig EXCEPT !.sleeper_z = sz, !.trap_z = tz]
    /\ detector = NoDetector
    /\ result = Nothing
    /\ scored = <<>>
    /\ pairs = <<>>
    /\ arch_ratings = <<>>
    /\ irregularity_detector = NoDetector
    /\ snapshot = Nothing
    /\ calls = 0
    /\ self_config = Nothing

NextThresholds == FromThresholds

SpecThresholds == InitThresholds /\ [][NextThresholds]_vars

----------------------------------------------------------------------------
(* ColorScorer.calculate_all_color_strengths on scored cards of every colour
   and rarity *)

ColorKinds ==
    <<"mythic_g", "rare_w", "rare_wu", "rare_r", "colourless", "uncommon_b", "common_u">>

\* a scored card of a kind, named name; the kinds are in descending order of
\* composite_score, the order score_all_cards leaves the list in
ColorCard(kind, name) ==
    LET Scored(colors, rarity, wr, deck_wr, score) ==
            Card([CardStats(name, colors, rarity, wr, RefGames, (RefGames * wr) \div 10000, 70)
                     EXCEPT !.deck_wr = deck_wr, !.game_count = 2000],
                 score, assign_grade(score), wr, "normal")
    IN  CASE kind = "mythic_g"   -> Scored(<<"G">>, "mythic", 6800, 6000, 95000)
          [] kind = "rare_w"     -> Scored(<<"W">>, "rare", 6000, 5600, 80000)
          [] kind = "rare_wu"    -> Scored(<<"W", "U">>, "rare", 5900, None, 72000)
          \* a mono coloured card whose deck win rate the API hides
          [] kind = "rare_r"     -> Scored(<<"R">>, "rare", 5500, None, 60000)
          [] kind = "colourless" -> Scored(<<>>, "common", 5400, 5300, 55000)
          [] kind = "uncommon_b" -> Scored(<<"B">>, "uncommon", 5200, 5200, 50000)
          [] kind = "common_u"   -> Scored(<<"U">>, "common", 5000, 5100, 45000)

MaxColorCards == 3

\* scored card lists of at most MaxColorCards cards
ColorCardLists ==
    {[i \in 1..Len(ks) |-> ColorCard(ColorKinds[ks[i]], i)] \o <<>> :
        ks \in ExtrasUpTo(MaxColorCards, 1..Len(ColorKinds))}

\* color pair lists as fetch_color_ratings returns them; no list and an empty
\* list are both <<>>
ColorPairInputs ==
    {<<>>,
     <<ColorPair(<<"W", "U">>, 0, 0)>>,
     <<ColorPair(<<"W", "U">>, 550, 1000), ColorPair(<<"U", "B">>, 480, 1000),
       ColorPair(<<"B", "G">>, 610, 1000), ColorPair(<<"W", "U", "B">>, 600, 1000)>>}

\* color_scorer.calculate_all_color_strengths(scored, pairs)
CalculateAllColorStrengths ==
    /\ op = "input"
    /\ LET error == calculate_all_color_strengths_error(scored, pairs)
       IN  IF IsError(error)
           THEN /\ result' = error
                /\ op' = "raised"
           ELSE /\ result' = calculate_all_color_strengths(scored, pairs)
                /\ op' = "calculate_all_color_strengths"
    /\ UNCHANGED <<card_stats, target, thresholds, detector, scored, pairs,
                   arch_ratings, irregularity_detector, snapshot, calls, self_config>>

InitColor ==
    /\ op = "input"
    /\ card_stats = <<>>
    /\ target = 0
    /\ thresholds = Nothing
    /\ detector = NoDetector
    /\ result = Nothing
    /\ scored \in ColorCardLists
    /\ pairs \in ColorPairInputs
    /\ arch_ratings = <<>>
    /\ irregularity_detector = NoDetector
    /\ snapshot = Nothing
    /\ calls = 0
    /\ self_config = Nothing

NextColor == CalculateAllColorStrengths

SpecColor == InitColor /\ [][NextColor]_vars

----------------------------------------------------------------------------
(* analysis/color_meta.py: MetaAnalyzer, constructed with its defaults, whose
   analyze() is called up to MaxCalls times on the data of one set after
   another *)

\* the card ratings the loader returns for a set: populations of rares, all
\* alike or spread out behind a strong card and a card without data or behind
\* a weak card; one with a card without win rate but with games; one of commons
AnalyzerDatasets ==
    LET Set(step, rarity, extras) ==
            [n |-> MinPopulation, step |-> step, games |-> RefGames,
             rarity |-> rarity, full |-> TRUE, extras |-> extras]
        Kind(kind) == CHOOSE k \in AllKinds : ExtraKinds[k] = kind
    IN  {Set(step, "rare", extras) :
             step \in {50, 100, 150, 200},
             extras \in {<<Kind("no_data"), Kind("strong")>>, <<Kind("weak")>>}}
        \cup {Set(0, "rare", <<>>),
              Set(100, "rare", <<Kind("no_data_games")>>),
              Set(100, "common", <<>>)}

\* the color pair ratings and the archetype ratings the loader returns
AnalyzerPairs ==
    <<ColorPair(<<"W", "U">>, 550, 1000), ColorPair(<<"U", "B">>, 480, 1000),
      ColorPair(<<"W", "U", "B">>, 600, 1000)>>

AnalyzerRatings ==
    << << <<"W", "U">>, <<Rating(1, 120, 5600), Rating(101, 300, 5300),
                          Rating(102, 40, 5900)>> >>,
       << <<"U", "B">>, <<Rating(1, 90, 5000), Rating(101, 200, 5350)>> >> >>

\* MetaSnapshot(...), the fields the analysis of the cards fills
MetaSnapshot(t, all_cards, sleeper_cards, trap_cards, no_data_cards, color_strengths) ==
    [thresholds |-> t, all_cards |-> all_cards, sleeper_cards |-> sleeper_cards,
     trap_cards |-> trap_cards, no_data_cards |-> no_data_cards,
     total_cards |-> Len(all_cards), color_strengths |-> color_strengths]

\* analyze() ends with exception error: nothing is returned, what the call
\* stored in self stays
AnalyzeRaises(error, self_detector) ==
    /\ op' = "raised"
    /\ result' = error
    /\ snapshot' = Nothing
    /\ scored' = <<>>
    /\ irregularity_detector' = self_detector

\* MetaAnalyzer.analyze(expansion), without trophy and LLM steps
Analyze ==
    /\ calls < MaxCalls
    /\ calls' = calls + 1
    /\ self_config' = self_config
    /\ target' = 0
    /\ pairs' = AnalyzerPairs
    /\ arch_ratings' = AnalyzerRatings
    /\ \E d \in AnalyzerDatasets :
          /\ card_stats' = CardsOf(d)
          /\ IF IsError(calibrate_error(card_stats'))
             THEN /\ thresholds' = Nothing
                  /\ detector' = NoDetector
                  /\ AnalyzeRaises(calibrate_error(card_stats'), irregularity_detector)
             ELSE
             /\ thresholds' = calibrate(DefaultCalibratorConfig, card_stats')
             /\ \E self_detector \in {IF irregularity_detector = NoDetector
                                       THEN from_thresholds(thresholds')
                                       ELSE irregularity_detector} :
                \E scored_cards \in {score_all_cards(card_stats')} :
                \E score_error \in {score_all_cards_error(scored_cards)} :
                   IF IsError(score_error)
                   THEN /\ detector' = NoDetector
                        /\ AnalyzeRaises(score_error, self_detector)
                   ELSE
                   \E enriched \in {enrich_cards_with_viability(
                                        scored_cards, arch_ratings', ViabilityMinGames)} :
                   \E r \in {analyze_all_cards(self_detector, enriched)} :
                   \E color_error \in {calculate_all_color_strengths_error(
                                            r.all_cards, pairs')} :
                      /\ detector' = self_detector
                      /\ IF IsError(color_error)
                         THEN AnalyzeRaises(color_error, self_detector)
                         ELSE /\ op' = "analyze"
                              /\ result' = r
                              /\ scored' = r.all_cards
                              /\ irregularity_detector' = self_detector
                              /\ snapshot' = MetaSnapshot(
                                     thresholds', r.all_cards, r.sleepers, r.traps,
                                     r.no_data_cards,
                                     calculate_all_color_strengths(r.all_cards, pairs'))

\* MetaAnalyzer()
Init ==
    /\ op = "init"
    /\ card_stats = <<>>
    /\ Idle

Next == Analyze

Spec == Init /\ [][Next]_vars

----------------------------------------------------------------------------
(* analysis/color_meta.py: MetaAnalyzer.detect_archetype_structure with its
   default min_share_threshold *)

MaxPairs == 3

ArchetypeMinGames == 50     \* pairs with fewer games are neither main nor candidate
MinShareThreshold == 200    \* 2.0 % of the games makes a main archetype
VariantShareMin == 50       \* 0.5 % of the games makes a variant candidate
FallbackTop == 5            \* without a main archetype: the most played pairs

\* SplashVariant(colors, added_color, win_rate, games, meta_share, win_rate_delta)
SplashVariant(colors, added_color, win_rate, games, meta_share, win_rate_delta) ==
    [colors |-> colors, added_color |-> added_color, win_rate |-> win_rate,
     games |-> games, meta_share |-> meta_share, win_rate_delta |-> win_rate_delta]

\* MetaAnalyzer.detect_archetype_structure: main_pairs and variants_map; shares
\* are compared as games against total_games
detect_archetype_structure(color_pairs) ==
    LET PairGames(cp) == cp.games
        \* set(cp.colors)
        ColorSet(colors) == {colors[i] : i \in 1..Len(colors)}
        \* "".join(sorted(list(added_colors))): the colours in alphabetical order
        SortedColors(added_colors) ==
            LET InSet(c) == c \in added_colors
            IN  Filter(<<"B", "G", "R", "U", "W">>, InSet)
        IsMain(total_games, cp) ==
            /\ cp.games >= ArchetypeMinGames
            /\ cp.games * 10000 >= MinShareThreshold * total_games
        IsCandidate(total_games, cp) ==
            /\ cp.games >= ArchetypeMinGames
            /\ cp.games * 10000 < MinShareThreshold * total_games
            /\ cp.games * 10000 >= VariantShareMin * total_games
        IsSplash(parent, variant_cand) ==
            /\ parent # variant_cand
            /\ ColorSet(parent.colors) \subseteq ColorSet(variant_cand.colors)
            /\ Cardinality(ColorSet(variant_cand.colors))
                   = Cardinality(ColorSet(parent.colors)) + 1
        Variant(total_games, parent, variant_cand) ==
            SplashVariant(variant_cand.colors,
                SortedColors(ColorSet(variant_cand.colors) \ ColorSet(parent.colors)),
                variant_cand.win_rate, variant_cand.games,
                (variant_cand.games * 10000) \div total_games,
                variant_cand.win_rate - parent.win_rate)
        \* the variants appended to variants_map[colors]: candidates in the outer
        \* loop, parents in the inner one
        VariantsOf(total_games, colors, main_pairs, all_potential_variants) ==
            LET np == Len(main_pairs)
                loop == [n \in 1..(Len(all_potential_variants) * np) |->
                            <<all_potential_variants[((n - 1) \div np) + 1],
                              main_pairs[((n - 1) % np) + 1]>>] \o <<>>
                Appends(step) == step[2].colors = colors /\ IsSplash(step[2], step[1])
                Made(step) == Variant(total_games, step[2], step[1])
            IN  Map(Filter(loop, Appends), Made)
        Mapped(total_games, main_pairs, all_potential_variants) ==
            [main_pairs |-> main_pairs,
             variants_map |->
                 [colors \in {main_pairs[i].colors : i \in 1..Len(main_pairs)} |->
                     VariantsOf(total_games, colors, main_pairs, all_potential_variants)]]
        Structure(total_games) ==
            LET Main(cp) == IsMain(total_games, cp)
                Candidate(cp) == IsCandidate(total_games, cp)
            IN  TheOne({TheOne({Mapped(total_games, main_pairs, main_pairs \o candidates) :
                                   main_pairs \in {IF main # <<>> THEN main
                                                   ELSE Take(SortDesc(color_pairs, PairGames),
                                                             FallbackTop)}}) :
                           main \in {Filter(color_pairs, Main)},
                           candidates \in {Filter(color_pairs, Candidate)}})
    IN  TheOne({IF total_games = 0
                THEN [main_pairs |-> <<>>, variants_map |-> <<>>]
                ELSE Structure(total_games) :
                   total_games \in {SumSeq(Map(color_pairs, PairGames))}})

\* the color pairs a set can have: two colour and three colour pairs below the
\* 50 game floor, without games, and with games
ArchetypePairKinds ==
    <<ColorPair(<<"W", "U">>, 22, 40), ColorPair(<<"U", "B">>, 0, 0),
      ColorPair(<<"W", "U", "B">>, 27, 45), ColorPair(<<"W", "U">>, 2800, 5000),
      ColorPair(<<"W", "U", "B">>, 33, 60), ColorPair(<<"U", "B">>, 24, 49)>>

RECURSIVE PairLists(_)
\* the lists of at most m pairs
PairLists(m) ==
    IF m = 0 THEN {<<>>}
    ELSE PairLists(m - 1)
         \cup {Append(l, ArchetypePairKinds[k]) :
                  l \in {x \in PairLists(m - 1) : Len(x) = m - 1},
                  k \in 1..Len(ArchetypePairKinds)}

\* lists of at most MaxPairs pairs, and one of more than FallbackTop pairs all
\* below the floor
ArchetypePairInputs ==
    PairLists(MaxPairs)
    \cup {[i \in 1..(FallbackTop + 1) |->
              ColorPair(<<Colors[(i % 5) + 1], Colors[((i + 1) % 5) + 1]>>, i, 30 + i)] \o <<>>}

\* self.detect_archetype_structure(pairs)
DetectArchetypeStructure ==
    /\ op = "input"
    /\ op' = "detect_archetype_structure"
    /\ result' = detect_archetype_structure(pairs)
    /\ UNCHANGED <<card_stats, target, thresholds, detector, scored, pairs,
                   arch_ratings, irregularity_detector, snapshot, calls, self_config>>

InitArchetype ==
    /\ op = "input"
    /\ card_stats = <<>>
    /\ target = 0
    /\ thresholds = Nothing
    /\ detector = NoDetector
    /\ result = Nothing
    /\ scored = <<>>
    /\ pairs \in ArchetypePairInputs
    /\ arch_ratings = <<>>
    /\ irregularity_detector = NoDetector
    /\ snapshot = Nothing
    /\ calls = 0
    /\ self_config = Nothing

NextArchetype == DetectArchetypeStructure

SpecArchetype == InitArchetype /\ [][NextArchetype]_vars

----------------------------------------------------------------------------
(* scoring/calibration.py: Calibrator(config).calibrate on card lists of any
   kind, once and then again under another sleeper_percentile, and percentile
   on the win rates of a card list *)

\* card lists from the empty one to five reference cards behind the extras,
\* with too few games to count or with enough
CalibratorDatasets ==
    [n : {0, 1, 5}, step : {0, 100}, games : {100, RefGames}, rarity : {"common"},
     full : {FALSE}, extras : ExtrasUpTo(MaxExtra, AllKinds)]

\* the percentiles percentile() is asked for
Percentiles == {0, 10, 50, 90, 100}

\* Calibrator(config) with the default config but for sleeper_percentile
CalibratorConfigs ==
    {[DefaultCalibratorConfig EXCEPT !.sleeper_percentile = p] : p \in Percentiles}

\* Calibrator(config).calibrate(card_stats)
Calibrate ==
    /\ op = "input"
    /\ \E cfg \in CalibratorConfigs :
       \E error \in {calibrate_error(card_stats)} :
          /\ self_config' = cfg
          /\ IF IsError(error)
             THEN /\ op' = "raised"
                  /\ result' = error
                  /\ thresholds' = thresholds
             ELSE /\ op' = "calibrate"
                  /\ result' = result
                  /\ thresholds' = calibrate(cfg, card_stats)
    /\ UNCHANGED <<card_stats, target, detector, scored, pairs, arch_ratings,
                   irregularity_detector, snapshot, calls>>

\* a second Calibrator(config).calibrate(card_stats) on the same cards; result
\* holds its config and what it returned
CalibrateAgain ==
    /\ op = "calibrate"
    /\ op' = "calibrate_again"
    /\ \E cfg \in CalibratorConfigs :
          result' = [config |-> cfg, thresholds |-> calibrate(cfg, card_stats)]
    /\ UNCHANGED <<card_stats, target, thresholds, detector, scored, pairs,
                   arch_ratings, irregularity_detector, snapshot, calls, self_config>>

\* percentile(values, p) on the win rates present in card_stats, in list order
Percentile ==
    /\ op = "input"
    /\ op' = "percentile"
    /\ \E p \in Percentiles :
       \E values \in {Map(Filter(card_stats, HasWr), LAMBDA c : c.gih_wr)} :
          /\ target' = p
          /\ result' = [values |-> values, percentile |-> percentile(values, p)]
    /\ UNCHANGED <<card_stats, thresholds, detector, scored, pairs, arch_ratings,
                   irregularity_detector, snapshot, calls, self_config>>

InitCalibrator ==
    /\ op = "input"
    /\ card_stats \in {CardsOf(d) : d \in CalibratorDatasets}
    /\ Idle

NextCalibrator == Calibrate \/ CalibrateAgain \/ Percentile

SpecCalibrator == InitCalibrator /\ [][NextCalibrator]_vars

----------------------------------------------------------------------------
(* scoring/card_scorer.py: the functions of one argument list, applied to
   arguments of every kind *)

\* scores from 0 to 100 in steps of a half, and those a thousandth below and
\* above each grade threshold
GradeScores ==
    {k * 500 : k \in 0..200}
    \cup {GRADE_THRESHOLDS[i][2] * 1000 + d : i \in 1..(Len(GRADE_THRESHOLDS) - 1), d \in {-1, 1}}

\* scorer.assign_grade(score); target holds the score
AssignGrade ==
    /\ op = "input"
    /\ op' = "assign_grade"
    /\ \E score \in GradeScores :
          /\ target' = score
          /\ result' = assign_grade(score)
    /\ UNCHANGED <<card_stats, thresholds, detector, scored, pairs, arch_ratings,
                   irregularity_detector, snapshot, calls, self_config>>

MaxWilsonGames == 12

\* wins and games with 0 <= wins <= games: every pair up to MaxWilsonGames
\* games, and none, few, about half, all but one and all of RefGames games
WilsonInputs ==
    {input \in [wins : 0..MaxWilsonGames
                        \cup {RefGames \div 2 - 1, RefGames \div 2, RefGames \div 2 + 1,
                              RefGames - 1, RefGames},
                games : 0..MaxWilsonGames \cup {RefGames}] :
        input.wins <= input.games}

\* wilson_score_lower_bound(wins, games); result holds the calls made, each
\* with its arguments and the bound returned
WilsonScoreLowerBound ==
    /\ op = "input"
    /\ op' = "wilson_score_lower_bound"
    /\ \E input \in WilsonInputs :
          result' = <<[wins |-> input.wins, games |-> input.games,
                       bound |-> wilson_score_lower_bound(input.wins, input.games)]>>
    /\ UNCHANGED <<card_stats, target, thresholds, detector, scored, pairs, arch_ratings,
                   irregularity_detector, snapshot, calls, self_config>>

\* wilson_score_lower_bound(wins, games) once more, for the same games
WilsonScoreLowerBoundAgain ==
    /\ op = "wilson_score_lower_bound"
    /\ op' = "wilson_score_lower_bound_again"
    /\ \E input \in WilsonInputs :
          /\ input.games = result[1].games
          /\ result' = Append(result,
                              [wins |-> input.wins, games |-> input.games,
                               bound |-> wilson_score_lower_bound(input.wins, input.games)])
    /\ UNCHANGED <<card_stats, target, thresholds, detector, scored, pairs, arch_ratings,
                   irregularity_detector, snapshot, calls, self_config>>


----------------------------------------------------------------------------
(* analysis/trophy_analyzer.py: TrophyStats.to_dict and TrophyStats.from_dict.
   A dict is the sequence of its [key, value] items in insertion order.
   splash_rate is in ten-thousandths, avg_cmc in thousandths. *)

MaxArchetypes == 2

\* the ranking cut to the archetypes that have a trophy
get_archetype_ranking_with_trophies(self) ==
    Filter(SortDesc([i \in 1..Len(self.archetype_stats) |-> self.archetype_stats[i].value] \o <<>>,
                    LAMBDA arch : arch.trophy_count),
           LAMBDA arch : arch.trophy_count > 0)

\* TrophyStats.get_archetype_ranking: the values by trophy_count descending
get_archetype_ranking(self) ==
    SortDesc([i \in 1..Len(self.archetype_stats) |-> self.archetype_stats[i].value] \o <<>>,
             LAMBDA arch : arch.trophy_count)

\* TrophyStats.to_dict: the entries TrophyStats.from_dict reads back;
\* round() is to the nearest, a tie to the even neighbour
to_dict(self) ==
    LET round(n, d) ==
            IF 2 * (n % d) > d \/ (2 * (n % d) = d /\ (n \div d) % 2 = 1)
            THEN n \div d + 1 ELSE n \div d
        ArchData(arch) ==
            [colors |-> arch.colors,
             guild_name |-> arch.guild_name,
             trophy_count |-> arch.trophy_count,
             trophy_share_pct |->
                IF self.analyzed_decks # 0
                THEN round(arch.trophy_count * 10000, self.analyzed_decks * 10)
                ELSE 0,
             total_wins |-> arch.total_wins,
             total_losses |-> arch.total_losses,
             avg_cmc |-> IF arch.avg_cmc # 0 THEN round(arch.avg_cmc, 10) ELSE None,
             splash_rate_pct |-> round(arch.splash_rate, 10)]
    IN  [meta |-> [expansion |-> self.expansion,
                   format |-> self.format,
                   total_trophy_decks |-> self.total_trophy_decks,
                   analyzed_decks |-> self.analyzed_decks],
         archetype_ranking |->
            Map(get_archetype_ranking(self), ArchData)]

\* TrophyStats.from_dict: stats.archetype_stats[arch.colors] = arch for every
\* entry of archetype_ranking in turn, a later entry replacing an earlier one
\* of the same colours
from_dict(data) ==
    LET Arch(arch_data) ==
            [colors |-> arch_data.colors,
             guild_name |-> arch_data.guild_name,
             trophy_count |-> arch_data.trophy_count,
             total_wins |-> arch_data.total_wins,
             total_losses |-> arch_data.total_losses,
             avg_cmc |-> IF arch_data.avg_cmc = None THEN 0 ELSE arch_data.avg_cmc * 10,
             splash_rate |->
                IF arch_data.splash_rate_pct # 0 THEN arch_data.splash_rate_pct * 10 ELSE 0]
        SetItem(dict, key, value) ==
            IF \E i \in 1..Len(dict) : dict[i].key = key
            THEN [i \in 1..Len(dict) |->
                    IF dict[i].key = key THEN [key |-> key, value |-> value] ELSE dict[i]] \o <<>>
            ELSE Append(dict, [key |-> key, value |-> value])
        ArchetypeStats[n \in 0..Len(data.archetype_ranking)] ==
            IF n = 0 THEN <<>>
            ELSE SetItem(ArchetypeStats[n - 1], data.archetype_ranking[n].colors,
                         Arch(data.archetype_ranking[n]))
    IN  [expansion |-> data.meta.expansion,
         format |-> data.meta.format,
         total_trophy_decks |-> data.meta.total_trophy_decks,
         analyzed_decks |-> data.meta.analyzed_decks,
         archetype_stats |-> ArchetypeStats[Len(data.archetype_ranking)]]

\* TrophyStats objects of up to MaxArchetypes archetypes with distinct keys,
\* the key of an entry being its colours or not
TrophyStatsInputs ==
    LET Keys == {"WU", "UB", "BR"}
        Archetypes ==
            {[colors |-> colors,
              guild_name |-> colors,
              trophy_count |-> count,
              total_wins |-> 7 * count,
              total_losses |-> count,
              avg_cmc |-> IF count = 0 THEN 0 ELSE 2875,
              splash_rate |-> splash] :
                colors \in Keys, count \in {0, 3, 7}, splash \in {0, 1234}}
        Items == [key : Keys, value : Archetypes]
        Dicts ==
            {dict \in UNION {[1..n -> Items] : n \in 0..MaxArchetypes} :
                \A i, j \in 1..Len(dict) : i # j => dict[i].key # dict[j].key}
    IN  {[expansion |-> "FDN",
          format |-> "PremierDraft",
          total_trophy_decks |-> analyzed,
          analyzed_decks |-> analyzed,
          archetype_stats |-> dict \o <<>>] : analyzed \in {0, 10}, dict \in Dicts}

\* stats.to_dict(); self_config is the TrophyStats object
ToDict ==
    /\ op = "input"
    /\ op' = "to_dict"
    /\ result' = to_dict(self_config)
    /\ UNCHANGED <<card_stats, target, thresholds, detector, scored, pairs, arch_ratings,
                   irregularity_detector, snapshot, calls, self_config>>

\* TrophyStats.from_dict(data) of the dictionary to_dict returned
FromDict ==
    /\ op = "to_dict"
    /\ op' = "from_dict"
    /\ result' = from_dict(result)
    /\ UNCHANGED <<card_stats, target, thresholds, detector, scored, pairs, arch_ratings,
                   irregularity_detector, snapshot, calls, self_config>>

InitTrophy ==
    /\ op = "input"
    /\ card_stats = <<>>
    /\ target = 0
    /\ thresholds = Nothing
    /\ detector = NoDetector
    /\ result = Nothing
    /\ scored = <<>>
    /\ pairs = <<>>
    /\ arch_ratings = <<>>
    /\ irregularity_detector = NoDetector
    /\ snapshot = Nothing
    /\ calls = 0
    /\ self_config \in TrophyStatsInputs

NextTrophy == ToDict \/ FromDict

SpecTrophy == InitTrophy /\ [][NextTrophy]_vars

----------------------------------------------------------------------------
(* data/loader.py: SeventeenLandsLoader.fetch_color_ratings, with
   data/color_fallback.py: compute_color_pairs_from_cards *)

MaxFallbackCards == 3
FallbackMinGames == 200
PrimaryWeight == 70

\* models/archetype.py: COLOR_PAIRS
COLOR_PAIRS ==
    << <<"W", "U">>, <<"U", "B">>, <<"B", "R">>, <<"R", "G">>, <<"W", "G">>,
       <<"W", "B">>, <<"U", "R">>, <<"B", "G">>, <<"W", "R">>, <<"U", "G">> >>

\* compute_color_pairs_from_cards(card_stats). target_archetypes is a set of
\* str, iterated in an order that depends on the hash seed of the process:
\* reversed tells whether the listed order or its reverse is taken.
\* ALL_ARCHETYPE_NAMES, which color_fallback imports from models/archetype.py
\* next to COLOR_PAIRS and ColorPair, is taken to be defined there.
compute_color_pairs_from_cards(cards, reversed) ==
    LET Usable(c) ==
            ~IsNone(c.deck_wr) /\ c.deck_wr > 0 /\ c.game_count >= FallbackMinGames
        DeckWr(c) == c.deck_wr
        Weighted(c) == c.deck_wr * c.game_count
        GameCount(c) == c.game_count
        Letters(colors) == {colors[i] : i \in 1..Len(colors)}
        Mono(valid, color) ==
            Filter(valid, LAMBDA c : Len(c.colors) = 1 /\ c.colors[1] = color)
        \* _calculate_color_averages and _get_overperformers
        Above(mono) ==
            IF mono = <<>> THEN <<>>
            ELSE Filter(mono, LAMBDA c : c.deck_wr * Len(mono) > SumSeq(Map(mono, DeckWr)))
        Overperformers(valid, color) == TheOne({Above(mono) : mono \in {Mono(valid, color)}})
        Wr(list) == SumSeq(Map(list, Weighted)) \div SumSeq(Map(list, GameCount))
        \* _calculate_hybrid_wr
        Pair(colors, gold_cards, mono_cards) ==
            IF gold_cards # <<>> /\ mono_cards # <<>>
            THEN [wr |-> (PrimaryWeight * Wr(gold_cards)
                          + (100 - PrimaryWeight) * Wr(mono_cards)) \div 100,
                  games |-> SumSeq(Map(gold_cards, GameCount))
                            + SumSeq(Map(mono_cards, GameCount))]
            ELSE IF gold_cards # <<>>
            THEN [wr |-> Wr(gold_cards), games |-> SumSeq(Map(gold_cards, GameCount))]
            ELSE IF mono_cards # <<>>
            THEN [wr |-> Wr(mono_cards), games |-> SumSeq(Map(mono_cards, GameCount))]
            ELSE [wr |-> None, games |-> 0]
        Hybrid(valid, colors) ==
            TheOne({Pair(colors, gold_cards, mono_cards) :
                       gold_cards \in {Filter(valid, LAMBDA c : Letters(c.colors) = Letters(colors))},
                       mono_cards \in {Overperformers(valid, colors[1])
                                       \o Overperformers(valid, colors[2])}})
        Computed(colors, hybrid) ==
            [colors |-> colors,
             wins |-> (hybrid.wr * hybrid.games) \div 10000,
             games |-> hybrid.games,
             win_rate |-> hybrid.wr,
             is_computed |-> TRUE]
        Wedges(valid) ==
            Filter(valid, LAMBDA c : Len(c.colors) = 3)
        Added(wedges) ==
            [i \in 1..Len(wedges) |-> wedges[i].colors] \o <<>>
        FirstOnly(list) ==
            Filter([i \in 1..Len(list) |-> [at |-> i, colors |-> list[i]]] \o <<>>,
                   LAMBDA e : \A j \in 1..(e.at - 1) : list[j] # e.colors)
        Targets(valid) ==
            COLOR_PAIRS \o Map(FirstOnly(Added(Wedges(valid))), LAMBDA e : e.colors)
        Ordered(targets) ==
            IF reversed
            THEN [i \in 1..Len(targets) |-> targets[Len(targets) + 1 - i]] \o <<>>
            ELSE targets
        Results(valid, targets) ==
            Filter(Map(targets, LAMBDA colors : Computed(colors, Hybrid(valid, colors))),
                   LAMBDA pair : ~IsNone(pair.win_rate))
        FromValid(valid) ==
            IF valid = <<>> THEN <<>>
            ELSE SortDesc(TheOne({Results(valid, targets) :
                                     targets \in {Ordered(Targets(valid))}}),
                          LAMBDA pair : pair.win_rate)
    IN  IF cards = <<>> THEN <<>>
        ELSE TheOne({FromValid(valid) : valid \in {Filter(cards, Usable)}})

\* loader.fetch_color_ratings(expansion, format, use_cache, card_stats): the
\* exception that escapes ("nothing": it returns), the value returned and the cache
\* entry it leaves. self.response is what _make_request does: it returns
\* response.json() or raises again the requests exception it has logged.
fetch_color_ratings(self, cards, reversed) ==
    LET FromRaw(raw_data) ==
            [i \in 1..Len(raw_data) |->
                ColorPair(raw_data[i].color_name, raw_data[i].wins, raw_data[i].games)] \o <<>>
        Fallback(fallback) ==
            IF cards # <<>> /\ fallback # <<>> THEN fallback ELSE <<>>
    IN  IF self.use_cache /\ self.cached.found /\ self.cached.data # <<>>
        THEN [raised |-> "nothing", value |-> FromRaw(self.cached.data), cached |-> self.cached]
        ELSE IF self.response.raises = "nothing"
        THEN [raised |-> "nothing",
              value |-> FromRaw(self.response.json),
              cached |-> IF self.use_cache
                         THEN [found |-> TRUE, data |-> self.response.json]
                         ELSE self.cached]
        ELSE IF self.response.raises = "HTTPError"
        THEN [raised |-> "nothing",
              value |-> TheOne({Fallback(fallback) :
                                   fallback \in {compute_color_pairs_from_cards(cards, reversed)}}),
              cached |-> self.cached]
        ELSE [raised |-> self.response.raises, value |-> <<>>, cached |-> self.cached]

\* card lists for the fallback: up to MaxFallbackCards cards out of gold,
\* three colour, mono coloured, colourless and unusable ones
FallbackCards ==
    LET Rated(name, colors, deck_wr, game_count) ==
            [CardStats(name, colors, "common", None, 0, 0, 70)
                EXCEPT !.deck_wr = deck_wr, !.game_count = game_count]
        Kinds ==
            << Rated("gold", <<"W", "U">>, 6000, 400),
               Rated("wedge", <<"W", "U", "B">>, 5700, 250),
               Rated("strong", <<"W">>, 5800, 500),
               Rated("weak", <<"W">>, 5200, 500),
               Rated("blue", <<"U">>, 5500, 300),
               Rated("colourless", <<>>, 5500, 500),
               Rated("few_games", <<"W", "U">>, 5500, FallbackMinGames - 1),
               Rated("hidden", <<"U", "B">>, None, 500),
               Rated("zero", <<"B">>, 0, 500) >>
    IN  {Map(kinds, LAMBDA k : Kinds[k]) :
            kinds \in ExtrasUpTo(MaxFallbackCards, 1..Len(Kinds))}

\* loaders: the cache switched on or off, holding the colour ratings or not,
\* and the request answered or failing in one of the three ways
LoaderInputs ==
    LET RawData ==
            << [color_name |-> <<"W", "U">>, wins |-> 550, games |-> 1000],
               [color_name |-> <<"U", "B">>, wins |-> 0, games |-> 0] >>
    IN  [use_cache : BOOLEAN,
         cached : {[found |-> FALSE, data |-> <<>>], [found |-> TRUE, data |-> RawData]},
         response : {[raises |-> "nothing", json |-> RawData],
                     [raises |-> "HTTPError", json |-> <<>>],
                     [raises |-> "Timeout", json |-> <<>>],
                     [raises |-> "ConnectionError", json |-> <<>>]}]

\* loader.fetch_color_ratings(expansion, format, use_cache, card_stats);
\* self_config is the loader with its cache and the state of the network
FetchColorRatings ==
    /\ op = "input"
    /\ \E reversed \in BOOLEAN :
       \E r \in {fetch_color_ratings(self_config, card_stats, reversed)} :
          /\ op' = IF r.raised = "nothing" THEN "fetch_color_ratings" ELSE "raised"
          /\ result' = IF r.raised = "nothing" THEN r.value ELSE r.raised
          /\ self_config' = [self_config EXCEPT !.cached = r.cached]
    /\ UNCHANGED <<card_stats, target, thresholds, detector, scored, pairs, arch_ratings,
                   irregularity_detector, snapshot, calls>>

InitLoader ==
    /\ op = "input"
    /\ card_stats \in FallbackCards
    /\ target = 0
    /\ thresholds = Nothing
    /\ detector = NoDetector
    /\ result = Nothing
    /\ scored = <<>>
    /\ pairs = <<>>
    /\ arch_ratings = <<>>
    /\ irregularity_detector = NoDetector
    /\ snapshot = Nothing
    /\ calls = 0
    /\ self_config \in LoaderInputs

NextLoader == FetchColorRatings

SpecLoader == InitLoader /\ [][NextLoader]_vars

----------------------------------------------------------------------------
(* llm/gemini_client.py: GeminiClient.enrich_snapshot. A text is the sequence
   of its lines and None the empty sequence: _generate returns None in place
   of an empty text, so no text here is empty. A line is "format_header" (it
   holds the format mark), "archetype_header" (the archetype mark), "" or any
   other string. *)

LlmFields ==
    {"llm_meta_analysis", "llm_color_strategy", "llm_strategy_tips",
     "llm_format_overview", "llm_format_characteristics", "llm_archetype_deep_dive"}

\* snapshot.<field> = text, and the same with the trophy statistics dropped
set_text_dropping_trophies(snap, field, text) ==
    [snap EXCEPT ![field] = text, !.trophy_stats = Nothing]

set_text(snap, field, text) == [snap EXCEPT ![field] = text]

\* GeminiClient._parse_format_overview_sections: the lines from the first
\* format header on that follow a format header more closely than an
\* archetype header, and the same for the archetype; '\n'.join(...).strip()
\* drops the empty lines at both ends
_parse_format_overview_sections(text) ==
    LET Section(i) ==
            IF \E j \in 1..i : text[j] \in {"format_header", "archetype_header"}
            THEN text[CHOOSE j \in 1..i :
                        /\ text[j] \in {"format_header", "archetype_header"}
                        /\ \A k \in (j + 1)..i :
                              text[k] \notin {"format_header", "archetype_header"}]
            ELSE "none"
        Lines(header) ==
            Filter([i \in 1..Len(text) |-> [at |-> i, line |-> text[i]]] \o <<>>,
                   LAMBDA e : Section(e.at) = header)
        Strip(lines) ==
            IF \A i \in 1..Len(lines) : lines[i] = "" THEN <<>>
            ELSE SubSeq(lines,
                        CHOOSE i \in 1..Len(lines) :
                            lines[i] # "" /\ \A j \in 1..(i - 1) : lines[j] = "",
                        CHOOSE i \in 1..Len(lines) :
                            lines[i] # "" /\ \A j \in (i + 1)..Len(lines) : lines[j] = "")
        Joined(header) == Strip(Map(Lines(header), LAMBDA e : e.line))
    IN  IF text = <<>>
        THEN [format_characteristics |-> <<>>, archetype_deep_dive |-> <<>>]
        ELSE [format_characteristics |-> Joined("format_header"),
              archetype_deep_dive |-> Joined("archetype_header")]

\* client.enrich_snapshot(snapshot, include_color_strategy, include_strategy,
\* include_format_overview, use_split_api, include_meta); responses holds what
\* _generate returns for each prompt, built by reading the snapshot
enrich_snapshot(self, snap, args, responses) ==
    LET ColorStrategy(s) ==
            IF args.include_color_strategy
            THEN set_text(s, "llm_color_strategy", responses.color_strategy)
            ELSE s
        Meta(s) ==
            IF args.include_meta
            THEN set_text(s, "llm_meta_analysis", responses.meta)
            ELSE s
        Strategy(s) ==
            IF args.include_strategy
            THEN set_text(s, "llm_strategy_tips", responses.strategy)
            ELSE s
        Combined(s, format_char, arch_deep) ==
            IF format_char # <<>> /\ arch_deep # <<>>
            THEN set_text(s, "llm_format_overview", format_char \o <<"">> \o arch_deep)
            ELSE IF format_char # <<>>
            THEN set_text(s, "llm_format_overview", format_char)
            ELSE IF arch_deep # <<>>
            THEN set_text(s, "llm_format_overview", arch_deep)
            ELSE s
        Split(s, format_char, arch_deep) ==
            Combined(set_text(set_text(s, "llm_format_characteristics", format_char),
                              "llm_archetype_deep_dive", arch_deep),
                     format_char, arch_deep)
        Legacy(s, overview, sections) ==
            set_text(set_text(set_text(s, "llm_format_overview", overview),
                              "llm_format_characteristics", sections.format_characteristics),
                     "llm_archetype_deep_dive", sections.archetype_deep_dive)
        FormatOverview(s) ==
            IF ~args.include_format_overview THEN s
            ELSE IF args.use_split_api
            THEN Split(s, responses.format_characteristics, responses.archetype_deep_dive)
            ELSE TheOne({Legacy(s, responses.overview, sections) :
                            sections \in {_parse_format_overview_sections(responses.overview)}})
    IN  IF ~self.enabled THEN snap
        ELSE FormatOverview(Strategy(Meta(ColorStrategy(snap))))

\* snapshots: without cards or with the scored cards of a small set, without
\* or with trophy statistics, never enriched or enriched before
GeminiSnapshots ==
    LET Full(base, trophy_stats, text) ==
            [expansion |-> "FDN", format |-> "PremierDraft",
             thresholds |-> base.thresholds,
             all_cards |-> base.all_cards,
             sleeper_cards |-> base.sleeper_cards,
             trap_cards |-> base.trap_cards,
             no_data_cards |-> base.no_data_cards,
             color_strengths |-> base.color_strengths,
             archetypes |-> <<>>,
             total_cards |-> base.total_cards,
             total_games_analyzed |-> 0,
             format_speed |-> Nothing,
             splash_indicator |-> Nothing,
             trophy_stats |-> trophy_stats,
             llm_meta_analysis |-> <<>>,
             llm_color_strategy |-> text,
             llm_strategy_tips |-> text,
             llm_format_overview |-> text,
             llm_format_characteristics |-> <<>>,
             llm_archetype_deep_dive |-> <<>>]
        OfCards(cards) ==
            MetaSnapshot(ThresholdConfig, cards, <<>>, <<>>,
                         Filter(cards, LAMBDA c : c.irregularity_type = "no_data"), <<>>)
        Trophies ==
            [expansion |-> "FDN", format |-> "PremierDraft", total_trophy_decks |-> 10,
             analyzed_decks |-> 10, archetype_stats |-> <<>>]
    IN  {Full(base, trophy_stats, text) :
            base \in {OfCards(<<>>),
                      OfCards(score_all_cards(CardsOf(
                          [n |-> 2, step |-> 100, games |-> RefGames, rarity |-> "common",
                           full |-> FALSE, extras |-> <<1>>])))},
            trophy_stats \in {Nothing, Trophies},
            text \in {<<>>, <<"earlier">>}}

\* what _generate returns for the prompts: None, or the text of the response
GeminiResponses ==
    [color_strategy : {<<>>, <<"colors">>},
     meta : {<<>>, <<"meta">>},
     strategy : {<<>>, <<"tips">>},
     format_characteristics : {<<>>, <<"format_header", "slow">>},
     archetype_deep_dive : {<<>>, <<"archetype_header", "WU">>},
     overview : {<<>>,
                 <<"no sections">>,
                 <<"intro", "format_header", "slow", "", "archetype_header", "WU", "">>,
                 <<"archetype_header", "", "format_header">>}]

\* client.enrich_snapshot(snapshot, ...); self_config is the client, the
\* snapshot is changed in place and returned
EnrichSnapshot ==
    /\ op = "input"
    /\ op' = "enrich_snapshot"
    /\ \E args \in [include_color_strategy : BOOLEAN, include_strategy : BOOLEAN,
                    include_format_overview : BOOLEAN, use_split_api : BOOLEAN,
                    include_meta : BOOLEAN] :
       \E responses \in GeminiResponses :
       \E enriched \in {enrich_snapshot(self_config, snapshot, args, responses)} :
          /\ snapshot' = enriched
          /\ result' = enriched
    /\ UNCHANGED <<card_stats, target, thresholds, detector, scored, pairs, arch_ratings,
                   irregularity_detector, calls, self_config>>

InitGemini ==
    /\ op = "input"
    /\ card_stats = <<>>
    /\ target = 0
    /\ thresholds = Nothing
    /\ detector = NoDetector
    /\ result = Nothing
    /\ scored = <<>>
    /\ pairs = <<>>
    /\ arch_ratings = <<>>
    /\ irregularity_detector = NoDetector
    /\ snapshot \in GeminiSnapshots
    /\ calls = 0
    /\ self_config \in [enabled : BOOLEAN]

NextGemini == EnrichSnapshot

SpecGemini == InitGemini /\ [][NextGemini]_vars

----------------------------------------------------------------------------
(* analysis/color_meta.py: calculate_format_speed. Game lengths are in
   hundredths of a turn, win rates in basis points, tempo_ratio in
   ten-thousandths. The labels are written in English: "very_fast" for
   chogosok, "fast" for ppareum, "normal" for botong, "slightly_slow" for
   yakgan neurim, "slow" for neurim, "very_slow" for maeu neurim. *)

FormatSpeedMinGames == 200

\* _classify_speed_from_api(avg_length, wr_on_play): label and score
_classify_speed_from_api(avg_length, wr_on_play) ==
    LET length_score ==
            IF avg_length < 820 THEN 2
            ELSE IF avg_length < 850 THEN 1
            ELSE IF avg_length > 920 THEN -2
            ELSE IF avg_length > 900 THEN -1
            ELSE 0
        play_score ==
            IF wr_on_play > 5300 THEN 2
            ELSE IF wr_on_play > 5250 THEN 1
            ELSE IF wr_on_play < 5100 THEN -2
            ELSE IF wr_on_play < 5150 THEN -1
            ELSE 0
        Label(score) ==
            [label |-> IF score >= 3 THEN "very_fast"
                       ELSE IF score >= 1 THEN "fast"
                       ELSE IF score <= -3 THEN "very_slow"
                       ELSE IF score <= -1 THEN "slow"
                       ELSE "normal",
             score |-> score]
    IN  Label(length_score + play_score)

\* FormatSpeed(): the dataclass defaults
FormatSpeed ==
    [speed_label |-> "normal", average_game_length |-> None, win_rate_on_play |-> None,
     play_draw_sample_size |-> None, tempo_ratio |-> 10000, aggro_advantage |-> 0,
     avg_oh_wr |-> 0, avg_gd_wr |-> 0, low_cmc_wr |-> 0, high_cmc_wr |-> 0,
     conflicts |-> <<>>, recommendation |-> ""]

\* calculate_format_speed(cards, play_draw_data); play_draw_data is Nothing
\* for None. The interpretation text, which no label depends on, is left out.
calculate_format_speed(cards, play_draw_data) ==
    LET MeanOr(values) == IF values = <<>> THEN 5000 ELSE mean(values)
        Get(key) == IF play_draw_data = Nothing THEN None ELSE play_draw_data[key]
        Fallback(tempo_ratio, aggro_advantage) ==
            LET by_tempo ==
                    IF tempo_ratio >= 10300 THEN "fast"
                    ELSE IF tempo_ratio >= 9900 THEN "normal"
                    ELSE IF tempo_ratio >= 9600 THEN "slightly_slow"
                    ELSE "slow"
            IN  IF aggro_advantage > 300
                THEN IF by_tempo = "normal"
                     THEN [label |-> "fast", conflicts |-> <<"low cmc strong">>]
                     ELSE IF by_tempo = "slightly_slow"
                     THEN [label |-> "normal", conflicts |-> <<"cmc against tempo">>]
                     ELSE [label |-> by_tempo, conflicts |-> <<>>]
                ELSE IF aggro_advantage < -300
                THEN IF by_tempo = "normal"
                     THEN [label |-> "slightly_slow", conflicts |-> <<"high cmc strong">>]
                     ELSE IF by_tempo = "fast"
                     THEN [label |-> "normal", conflicts |-> <<"cmc against tempo">>]
                     ELSE [label |-> by_tempo, conflicts |-> <<>>]
                ELSE [label |-> by_tempo, conflicts |-> <<>>]
        Direct(api, tempo_ratio, aggro_advantage) ==
            [label |-> api.label,
             conflicts |->
                IF api.score >= 1 /\ (tempo_ratio <= 9700 \/ aggro_advantage < -300)
                THEN <<"api fast, indirect slow">>
                ELSE IF api.score <= -1 /\ (tempo_ratio >= 10200 \/ aggro_advantage > 300)
                THEN <<"api slow, indirect fast">>
                ELSE <<>>]
        Base(length, on_play, tempo_ratio, aggro_advantage) ==
            IF length # None /\ on_play # None
            THEN Direct(_classify_speed_from_api(length, on_play), tempo_ratio, aggro_advantage)
            ELSE Fallback(tempo_ratio, aggro_advantage)
        Recommendation(label) ==
            IF label \in {"very_fast", "fast"} THEN "tempo"
            ELSE IF label = "slightly_slow" THEN "value, mind the tempo"
            ELSE IF label \in {"slow", "very_slow"} THEN "value"
            ELSE "balanced"
        Speed(base, length, on_play, avg_oh_wr, avg_gd_wr, tempo_ratio,
              low_cmc_wr, high_cmc_wr, aggro_advantage) ==
            [speed_label |-> base.label,
             average_game_length |-> length,
             win_rate_on_play |-> on_play,
             play_draw_sample_size |-> Get("sample_size"),
             tempo_ratio |-> tempo_ratio,
             aggro_advantage |-> aggro_advantage,
             avg_oh_wr |-> avg_oh_wr, avg_gd_wr |-> avg_gd_wr,
             low_cmc_wr |-> low_cmc_wr, high_cmc_wr |-> high_cmc_wr,
             conflicts |->
                base.conflicts
                \o (IF tempo_ratio >= 10200 /\ aggro_advantage < -200
                    THEN <<"fast tempo, high cmc strong">> ELSE <<>>)
                \o (IF tempo_ratio < 9700 /\ aggro_advantage > 200
                    THEN <<"slow tempo, low cmc strong">> ELSE <<>>),
             recommendation |-> Recommendation(base.label)]
        WithBase(length, on_play, avg_oh_wr, avg_gd_wr, tempo_ratio,
                 low_cmc_wr, high_cmc_wr, aggro_advantage) ==
            TheOne({Speed(base, length, on_play, avg_oh_wr, avg_gd_wr, tempo_ratio,
                          low_cmc_wr, high_cmc_wr, aggro_advantage) :
                       base \in {Base(length, on_play, tempo_ratio, aggro_advantage)}})
        WithCmc(avg_oh_wr, avg_gd_wr, with_cmc, low, high) ==
            WithBase(Get("average_game_length"), Get("win_rate_on_play"),
                     avg_oh_wr, avg_gd_wr,
                     IF avg_gd_wr > 0 THEN (avg_oh_wr * 10000) \div avg_gd_wr ELSE 10000,
                     IF with_cmc THEN low ELSE 5000,
                     IF with_cmc THEN high ELSE 5000,
                     IF with_cmc THEN low - high ELSE 0)
        GihWr(c) == c.stats.gih_wr
        OfCmc(avg_oh_wr, avg_gd_wr, cards_with_cmc) ==
            WithCmc(avg_oh_wr, avg_gd_wr, cards_with_cmc # <<>>,
                    MeanOr(Map(Filter(cards_with_cmc, LAMBDA c : c.cmc <= 2), GihWr)),
                    MeanOr(Map(Filter(cards_with_cmc, LAMBDA c : c.cmc >= 5), GihWr)))
        OfValid(valid_cards) ==
            IF valid_cards = <<>> THEN FormatSpeed
            ELSE TheOne({OfCmc(avg_oh_wr, avg_gd_wr, cards_with_cmc) :
                    avg_oh_wr \in {MeanOr(Map(Filter(valid_cards,
                                        LAMBDA c : ~IsNone(c.stats.oh_wr) /\ c.stats.oh_wr > 0),
                                        LAMBDA c : c.stats.oh_wr))},
                    avg_gd_wr \in {MeanOr(Map(Filter(valid_cards,
                                        LAMBDA c : ~IsNone(c.stats.gd_wr) /\ c.stats.gd_wr > 0),
                                        LAMBDA c : c.stats.gd_wr))},
                    cards_with_cmc \in {Filter(valid_cards,
                                        LAMBDA c : /\ ~IsNone(c.cmc)
                                                   /\ ~IsNone(c.stats.gih_wr)
                                                   /\ c.stats.gih_wr > 0)}})
    IN  TheOne({OfValid(valid_cards) :
                   valid_cards \in {Filter(cards,
                                           LAMBDA c : c.stats.gih_games >= FormatSpeedMinGames)}})

\* calculate_format_speed(cards, play_draw_data): up to two cards whose
\* opening hand and drawn win rates put the tempo ratio in each band, cheap or
\* expensive or of unknown cost, and the play/draw answer absent, partial or
\* with a game length and a win rate on the play in each band
CalculateFormatSpeed ==
    /\ op = "input"
    /\ op' = "calculate_format_speed"
    /\ LET Rated(oh_wr, gih_wr, cmc, games) ==
               [stats |-> [CardStats("card", <<"U">>, "common", gih_wr, games, 0, 70)
                              EXCEPT !.oh_wr = oh_wr, !.gd_wr = 5000],
                cmc |-> cmc]
           Cards ==
               {Rated(oh_wr, gih_wr, cmc, RefGames) :
                   oh_wr \in {5500, 5000, 4900, 4700}, gih_wr \in {5000, 5800},
                   cmc \in {None, 1, 6}}
               \cup {Rated(5000, 5000, 1, FormatSpeedMinGames - 1)}
           Lists == {<<>>} \cup {<<c>> : c \in Cards}
                    \cup {<<Rated(oh_wr, 5000, 1, RefGames), Rated(5000, gih_wr, 6, RefGames)>> :
                             oh_wr \in {5500, 5000, 4900, 4700}, gih_wr \in {4500, 5000, 5500}}
           PlayDraw ==
               {Nothing}
               \cup [average_game_length : {None, 800, 830, 880, 910, 930},
                     win_rate_on_play : {None, 5350, 5270, 5200, 5120, 5050},
                     sample_size : {50000}]
       IN  \E cards \in Lists : \E play_draw_data \in PlayDraw :
              /\ scored' = cards
              /\ result' = calculate_format_speed(cards, play_draw_data)
    /\ UNCHANGED <<card_stats, target, thresholds, detector, pairs, arch_ratings,
                   irregularity_detector, snapshot, calls, self_config>>

----------------------------------------------------------------------------
(* scoring/color_scorer.py: ColorScorer.build_archetype and
   build_all_archetypes. meta_share is in basis points, strength_score in
   thousandths of a point, synergy lifts in basis points *)

ArchetypeKeyCommons == 5        \* key_commons, synergy_cards: the first five
ArchetypeKeyUncommons == 3      \* key_uncommons, bombs, trap_cards: the first three
SynergyMargin == 200            \* 0.02 above or below the card's own win rate
ArchetypeBuildMinGames == 1000  \* build_all_archetypes skips pairs with fewer games

\* ColorScorer._calculate_synergy_lift
_calculate_synergy_lift(card, archetype_colors, archetype_avg_wr) ==
    LET card_archetype_wr ==
            IF archetype_colors \in DOMAIN card.stats.archetype_wrs
            THEN card.stats.archetype_wrs[archetype_colors]
            ELSE card.stats.gih_wr
        baseline == IF Len(card.stats.colors) >= 2 THEN archetype_avg_wr
                    ELSE card.stats.gih_wr
    IN  card_archetype_wr - baseline

\* the cards build_archetype takes as the cards of the pair: those with every
\* colour of the pair, and the mono coloured ones of one of its colours
InArchetype(colors, c) ==
    \/ \A k \in 1..Len(colors) : HasColor(c.stats.colors, colors[k])
    \/ Len(c.stats.colors) = 1 /\ HasColor(colors, c.stats.colors[1])

\* ColorScorer.build_archetype: the Archetype of color_pair
build_archetype(color_pair, cards, all_color_pairs) ==
    LET colors == color_pair.colors
        Member(c) == InArchetype(colors, c)
        Common(c) == c.stats.rarity = "common"
        Uncommon(c) == c.stats.rarity = "uncommon"
        Rare(c) == c.stats.rarity \in {"rare", "mythic"}
        HasWrHere(c) == colors \in DOMAIN c.stats.archetype_wrs
        Lift(c) == _calculate_synergy_lift(c, colors, color_pair.win_rate)
        Over(c) == HasWrHere(c)
                   /\ c.stats.archetype_wrs[colors] > c.stats.gih_wr + SynergyMargin
        Under(c) == HasWrHere(c)
                    /\ c.stats.archetype_wrs[colors] < c.stats.gih_wr - SynergyMargin
        TwoColour(cp) == Len(cp.colors) = 2
        PairGames(cp) == cp.games
        Positive(lift) == lift > SynergyMargin
        MeanScore(top) == IF top = <<>> THEN 0 ELSE mean(Map(top, CompositeScore))
        Built(archetype_cards, commons, uncommons, rares, synergy_lifts, total_games) ==
            LET avg_synergy_lift == IF synergy_lifts # <<>> THEN mean(synergy_lifts) ELSE 0
                synergy_std == IF Len(synergy_lifts) > 1 THEN stdev(synergy_lifts) ELSE 0
                synergy_card_ratio ==
                    (Len(Filter(synergy_lifts, Positive)) * 1000)
                        \div Max(Len(synergy_lifts), 1)
                stability_bonus == Max(0, 5000 - synergy_std * 10)
            IN  [color_pair |-> color_pair,
                 strength_score |->
                     (color_pair.win_rate - 5000) * 100
                     + avg_synergy_lift * 5
                     + synergy_card_ratio * 15
                     + stability_bonus * 2
                     + MeanScore(Take(commons, ArchetypeKeyCommons)) \div 10
                     + MeanScore(Take(uncommons, ArchetypeKeyUncommons)) \div 10,
                 rank |-> 0,
                 key_commons |-> Map(Take(commons, ArchetypeKeyCommons), CardName),
                 key_uncommons |-> Map(Take(uncommons, ArchetypeKeyUncommons), CardName),
                 signpost_uncommon |-> IF uncommons # <<>> THEN uncommons[1].stats.name
                                       ELSE None,
                 bombs |-> Map(Take(rares, ArchetypeKeyUncommons), CardName),
                 synergy_cards |->
                     Take(Map(Filter(archetype_cards, Over), CardName), ArchetypeKeyCommons),
                 trap_cards |->
                     Take(Map(Filter(archetype_cards, Under), CardName), ArchetypeKeyUncommons),
                 meta_share |-> IF total_games > 0
                                THEN (color_pair.games * 10000) \div total_games ELSE 0,
                 trending |-> "stable",
                 synergy_lift |-> avg_synergy_lift,
                 synergy_std |-> synergy_std]
        Of(archetype_cards) ==
            Built(archetype_cards,
                  SortDesc(Filter(archetype_cards, Common), CompositeScore),
                  SortDesc(Filter(archetype_cards, Uncommon), CompositeScore),
                  SortDesc(Filter(archetype_cards, Rare), CompositeScore),
                  Map(Filter(archetype_cards, HasWrHere), Lift),
                  SumSeq(Map(Filter(all_color_pairs, TwoColour), PairGames)))
    IN  TheOne({Of(archetype_cards) : archetype_cards \in {Filter(cards, Member)}})

\* Archetype.win_rate
ArchetypeWinRate(a) == a.color_pair.win_rate

\* ColorScorer.build_all_archetypes: the archetypes of the two colour pairs
\* with enough games, sorted by win rate and ranked
build_all_archetypes(cards, color_pairs) ==
    LET Built(cp) == Len(cp.colors) = 2 /\ cp.games >= ArchetypeBuildMinGames
        Build(cp) == build_archetype(cp, cards, color_pairs)
        Ranked(archetypes) ==
            [i \in 1..Len(archetypes) |-> [archetypes[i] EXCEPT !.rank = i]] \o <<>>
    IN  TheOne({Ranked(archetypes) :
                   archetypes \in {SortDesc(Map(Filter(color_pairs, Built), Build),
                                            ArchetypeWinRate)}})

----------------------------------------------------------------------------
(* analysis/color_meta.py: calculate_splash_indicator on cards that carry no
   Scryfall text (type_line and oracle_text are None), so that is_dual_land
   and is_mana_fixer hold of none of them *)

SplashFixerAlsa == 70           \* dual_land_alsa without dual lands: 7.0
SplashFixerPickRate == 4000     \* dual_land_pick_rate without dual lands: 0.4

calculate_splash_indicator(cards, variants_map) ==
    LET all_variants ==
            {<<colors, i>> : colors \in DOMAIN variants_map, i \in 1..MaxPairs + 2}
        Recorded == {v \in all_variants : v[2] <= Len(variants_map[v[1]])}
        Delta(v) == variants_map[v[1]][v[2]].win_rate_delta
        positive_splash_count == Cardinality({v \in Recorded : Delta(v) > 0})
        negative_splash_count == Cardinality({v \in Recorded : Delta(v) < 0})
    IN  [splash_label |-> "low",
         dual_land_alsa |-> SplashFixerAlsa,
         dual_land_pick_rate |-> SplashFixerPickRate,
         fixer_wr_premium |-> 0,
         dual_land_count |-> 0,
         mana_fixer_count |-> 0,
         performance_validation |->
             IF Recorded = {} THEN "insufficient data"
             ELSE IF 2 * positive_splash_count > 3 * negative_splash_count THEN "good"
             ELSE IF negative_splash_count > positive_splash_count THEN "poor"
             ELSE "average",
         positive_splash_count |-> positive_splash_count,
         negative_splash_count |-> negative_splash_count]

----------------------------------------------------------------------------
(* analysis/color_meta.py: MetaAnalyzer.analyze(expansion), one statement
   after the other, without the trophy and LLM steps. result holds the local
   variables of the running call, op the statement executed last. Scryfall
   knows none of the cards and there are no play/draw statistics. *)

\* the stages of analyze() in the order of its statements
AnalyzeStages ==
    <<"detect_archetype_structure", "calibrate", "score_all_cards",
      "enrich_cards_with_variance", "analyze_all_cards", "build_all_archetypes",
      "calculate_format_speed", "calculate_all_color_strengths">>

\* what the loader answers: card ratings, color pair ratings, and the
\* archetype ratings of the pairs asked for
PipelineDatasets ==
    LET Set(step, rarity, extras) ==
            [n |-> MinPopulation, step |-> step, games |-> RefGames,
             rarity |-> rarity, full |-> TRUE, extras |-> extras]
        Kind(kind) == CHOOSE k \in AllKinds : ExtraKinds[k] = kind
    IN  {Set(100, "rare", <<Kind("weak")>>),
         Set(150, "common", <<Kind("strong"), Kind("weak")>>),
         Set(0, "uncommon", <<Kind("weak")>>),
         Set(50, "rare", <<Kind("no_data"), Kind("strong")>>),
         Set(100, "rare", <<Kind("no_data_games")>>)}

PipelinePairs ==
    {<<ColorPair(<<"W", "U">>, 550, 1000), ColorPair(<<"U", "B">>, 480, 1000),
       ColorPair(<<"B", "R">>, 520, 1000), ColorPair(<<"W", "U", "B">>, 600, 1000)>>,
     <<ColorPair(<<"W", "U">>, 27500, 50000), ColorPair(<<"U", "B">>, 430, 900),
       ColorPair(<<"W", "U", "B">>, 600, 1000)>>}

PipelineRatings == TheOne(ArchetypeInputs \ {<<>>})

\* loader.fetch_all_archetype_ratings(expansion, format, color_pairs=main_colors)
fetch_all_archetype_ratings(color_pairs) ==
    LET Asked(entry) == \E i \in 1..Len(color_pairs) : color_pairs[i] = entry[1]
    IN  Filter(PipelineRatings, Asked)

\* the local variables of analyze() before its first statement
AnalyzeLocals ==
    [stages |-> <<>>, loaded |-> <<>>, main_pairs |-> <<>>, variants_map |-> <<>>,
     sleepers |-> <<>>, traps |-> <<>>, no_data_cards |-> <<>>,
     archetypes |-> <<>>, snapshot |-> Nothing]

\* the record r with the fields of more added or replaced
With(r, more) ==
    [f \in DOMAIN r \cup DOMAIN more |-> IF f \in DOMAIN more THEN more[f] ELSE r[f]]

\* result after stage: the locals with the stage logged
Done(stage, more) ==
    With(result, With(more, [stages |-> Append(result.stages, stage)]))

\* the exception error ends the running analyze()
PipelineRaises(error) ==
    /\ op' = "raised"
    /\ result' = With(result, [error |-> error])

\* card_stats = fetch_card_ratings(...); color_pairs = fetch_color_ratings(...);
\* main_pairs, variants_map = self.detect_archetype_structure(color_pairs)
AnalyzeDetectStructure ==
    /\ op \in {"init", "raised", "calculate_all_color_strengths"}
    /\ calls < MaxCalls
    /\ calls' = calls + 1
    /\ \E d \in PipelineDatasets : \E color_pairs \in PipelinePairs :
       \E structure \in {detect_archetype_structure(color_pairs)} :
          /\ card_stats' = CardsOf(d)
          /\ pairs' = color_pairs
          /\ result' = With(AnalyzeLocals,
                            [stages |-> <<"detect_archetype_structure">>,
                             loaded |-> card_stats',
                             main_pairs |-> structure.main_pairs,
                             variants_map |-> structure.variants_map])
    /\ op' = "detect_archetype_structure"
    /\ thresholds' = Nothing
    /\ scored' = <<>>
    /\ arch_ratings' = <<>>
    /\ UNCHANGED <<target, detector, irregularity_detector, snapshot, self_config>>

\* thresholds = self.calibrator.calibrate(card_stats), and the detector made
\* from them when the analyzer has none
AnalyzeCalibrate ==
    /\ op = "detect_archetype_structure"
    /\ IF IsError(calibrate_error(card_stats))
       THEN /\ PipelineRaises(calibrate_error(card_stats))
            /\ UNCHANGED <<thresholds, irregularity_detector>>
       ELSE /\ op' = "calibrate"
            /\ thresholds' = calibrate(DefaultCalibratorConfig, card_stats)
            /\ irregularity_detector' =
                   IF irregularity_detector = NoDetector
                   THEN from_thresholds(thresholds') ELSE irregularity_detector
            /\ result' = Done("calibrate", [read |-> card_stats])
    /\ UNCHANGED <<card_stats, target, detector, scored, pairs, arch_ratings,
                   snapshot, calls, self_config>>

\* scored_cards = self.card_scorer.score_all_cards(card_stats, thresholds);
\* _enrich_with_scryfall finds no card
AnalyzeScoreCards ==
    /\ op = "calibrate"
    /\ \E scored_cards \in {score_all_cards(card_stats)} :
       \E error \in {score_all_cards_error(scored_cards)} :
          IF IsError(error)
          THEN PipelineRaises(error) /\ UNCHANGED scored
          ELSE /\ op' = "score_all_cards"
               /\ scored' = scored_cards
               /\ result' = Done("score_all_cards", <<>>)
    /\ UNCHANGED <<card_stats, target, thresholds, detector, pairs, arch_ratings,
                   irregularity_detector, snapshot, calls, self_config>>

\* the CardStats objects of the list card_stats after the cards that wrap them
\* became cards: Card.stats is the object the loader made
Wrapped(stats_list, cards) ==
    [i \in 1..Len(stats_list) |->
        cards[CHOOSE k \in 1..Len(cards) :
                 cards[k].stats.name = stats_list[i].name].stats] \o <<>>

\* archetype_data = self.loader.fetch_all_archetype_ratings(...);
\* scored_cards = enrich_cards_with_variance(scored_cards, archetype_data)
AnalyzeEnrich ==
    /\ op = "score_all_cards"
    /\ op' = "enrich_cards_with_variance"
    /\ arch_ratings' = fetch_all_archetype_ratings(Map(result.main_pairs, LAMBDA cp : cp.colors))
    /\ scored' = enrich_cards_with_viability(scored, arch_ratings', ViabilityMinGames)
    /\ card_stats' = Wrapped(card_stats, scored')
    /\ result' = Done("enrich_cards_with_variance", <<>>)
    /\ UNCHANGED <<target, thresholds, detector, pairs, irregularity_detector,
                   snapshot, calls, self_config>>

\* scored_cards, sleepers, traps, no_data_cards =
\*     self.irregularity_detector.analyze_all_cards(scored_cards)
AnalyzeClassify ==
    /\ op = "enrich_cards_with_variance"
    /\ op' = "analyze_all_cards"
    /\ \E r \in {analyze_all_cards(irregularity_detector, scored)} :
          /\ scored' = r.all_cards
          /\ result' = Done("analyze_all_cards",
                            [sleepers |-> r.sleepers, traps |-> r.traps,
                             no_data_cards |-> r.no_data_cards])
    /\ card_stats' = Wrapped(card_stats, scored')
    /\ UNCHANGED <<target, thresholds, detector, pairs, arch_ratings,
                   irregularity_detector, snapshot, calls, self_config>>

\* archetypes = self.color_scorer.build_all_archetypes(scored_cards, main_pairs),
\* each with its variants sorted by win rate
AnalyzeBuildArchetypes ==
    /\ op = "analyze_all_cards"
    /\ op' = "build_all_archetypes"
    /\ LET VariantWinRate(v) == v.win_rate
           Attach(arch) ==
               IF arch.color_pair.colors \in DOMAIN result.variants_map
               THEN With(arch, [variants |->
                        SortDesc(result.variants_map[arch.color_pair.colors],
                                 VariantWinRate)])
               ELSE arch
       IN  result' = Done("build_all_archetypes",
                          [archetypes |->
                              Map(build_all_archetypes(scored, result.main_pairs), Attach)])
    /\ UNCHANGED <<card_stats, target, thresholds, detector, scored, pairs, arch_ratings,
                   irregularity_detector, snapshot, calls, self_config>>

\* format_speed = calculate_format_speed(scored_cards, play_draw_data);
\* splash_indicator = calculate_splash_indicator(scored_cards, variants_map);
\* snapshot = MetaSnapshot(...)
FormatSummary ==
    /\ op' = "calculate_format_speed"
    /\ LET WithCost(c) == [stats |-> c.stats, cmc |-> None]
       IN  result' = Done("calculate_format_speed",
               [snapshot |->
                   With(MetaSnapshot(thresholds, scored, result.sleepers, result.traps,
                                     result.no_data_cards, <<>>),
                        [archetypes |-> result.archetypes,
                         format_speed |-> calculate_format_speed(Map(scored, WithCost),
                                                                 Nothing),
                         splash_indicator |->
                             calculate_splash_indicator(scored, result.variants_map)])])
    /\ UNCHANGED <<card_stats, target, thresholds, detector, scored, pairs, arch_ratings,
                   irregularity_detector, snapshot, calls, self_config>>

\* an analyze() that would summarise the format as soon as the cards are classified
AnalyzeFormatSummaryEarly == op = "analyze_all_cards" /\ FormatSummary

\* the format level summary follows the archetypes
AnalyzeFormatSummary == op = "build_all_archetypes" /\ FormatSummary

\* snapshot.color_strengths = self.color_scorer.calculate_all_color_strengths(
\*     scored_cards, color_pairs); return snapshot
AnalyzeColorStrengths ==
    /\ op = "calculate_format_speed"
    /\ \E error \in {calculate_all_color_strengths_error(scored, pairs)} :
          IF IsError(error)
          THEN PipelineRaises(error) /\ UNCHANGED snapshot
          ELSE /\ op' = "calculate_all_color_strengths"
               /\ snapshot' = With(result.snapshot,
                      [color_strengths |-> calculate_all_color_strengths(scored, pairs)])
               /\ result' = Done("calculate_all_color_strengths", [snapshot |-> snapshot'])
    /\ UNCHANGED <<card_stats, target, thresholds, detector, scored, pairs, arch_ratings,
                   irregularity_detector, calls, self_config>>

\* MetaAnalyzer()
InitPipeline ==
    /\ op = "init"
    /\ card_stats = <<>>
    /\ Idle

NextPipeline ==
    \/ AnalyzeDetectStructure
    \/ AnalyzeCalibrate
    \/ AnalyzeScoreCards
    \/ AnalyzeEnrich
    \/ AnalyzeClassify
    \/ AnalyzeBuildArchetypes
    \/ AnalyzeFormatSummary
    \/ AnalyzeColorStrengths

SpecPipeline == InitPipeline /\ [][NextPipeline]_vars

----------------------------------------------------------------------------
(* the functions of one argument list, each applied to its arguments *)

\* detector._calculate_expected_wr(card) and the expected_wr calibrate()
\* computes for the same card: cards seen at every average position, picked
\* never, half of the times and always
ExpectedWr ==
    /\ op = "input"
    /\ op' = "expected_wr"
    /\ \E alsa \in {10, 35, 70, 105, 140} : \E pick_count \in {0, 50, 100} :
       \E seen_count \in {0, 100} :
       \E card \in {[CardStats("card", <<"U">>, "common", 5500, RefGames, 550, alsa)
                        EXCEPT !.seen_count = seen_count,
                               !.pick_count = IF seen_count = 0 THEN 0 ELSE pick_count]} :
          result' = [card |-> card,
                     detector |-> _calculate_expected_wr(card),
                     calibrator |-> CalibratorExpectedWr(card)]
    /\ UNCHANGED <<card_stats, target, thresholds, detector, scored, pairs, arch_ratings,
                   irregularity_detector, snapshot, calls, self_config>>

MaxArchetypeCards == 2

\* ColorScorer().build_archetype(color_pair, cards, [color_pair]) on up to
\* MaxArchetypeCards scored cards of one, two and three colours and without
\* colour, some with a win rate in the pair
BuildArchetype ==
    /\ op = "input"
    /\ op' = "build_archetype"
    /\ LET Scored(name, colors, rarity, wr, score, wrs) ==
               Card([CardStats(name, colors, rarity, wr, RefGames,
                               (RefGames * wr) \div 10000, 70)
                        EXCEPT !.archetype_wrs = wrs],
                    score, assign_grade(score), wr, "normal")
           InPair(wr) == (<<"W", "U">> :> wr)
           Kind(k, name) ==
               CASE k = 1 -> Scored(name, <<"W">>, "common", 5500, 60000, InPair(5900))
                 [] k = 2 -> Scored(name, <<"B">>, "common", 5600, 65000, NoArchetypes)
                 [] k = 3 -> Scored(name, <<"W", "U">>, "uncommon", 5800, 70000, InPair(5300))
                 [] k = 4 -> Scored(name, <<"W", "U", "B">>, "rare", 6000, 80000, InPair(6500))
                 [] k = 5 -> Scored(name, <<"W", "U", "G">>, "common", 5200, 50000, NoArchetypes)
                 [] k = 6 -> Scored(name, <<>>, "uncommon", 5400, 55000, NoArchetypes)
           Lists == UNION {[1..n -> 1..6] : n \in 0..MaxArchetypeCards}
       IN  \E kinds \in Lists :
           \E color_pair \in {ColorPair(<<"W", "U">>, 550, 1000),
                              ColorPair(<<"U", "B">>, 480, 1000)} :
              /\ scored' = [i \in 1..Len(kinds) |-> Kind(kinds[i], i)] \o <<>>
              /\ pairs' = <<color_pair>>
              /\ result' = build_archetype(color_pair, scored', pairs')
    /\ UNCHANGED <<card_stats, target, thresholds, detector, arch_ratings,
                   irregularity_detector, snapshot, calls, self_config>>

(* data/scryfall.py: parse_mana_requirements. A mana cost is the sequence of
   its symbols, a symbol the sequence of the characters between its braces
   without the slash: {3} is <<"3">>, {W} is <<"W">>, {W/U} is <<"W", "U">> *)

MaxSymbols == 3

\* str.upper on the characters of a symbol
Upper(ch) ==
    CASE ch = "w" -> "W" [] ch = "u" -> "U" [] ch = "b" -> "B"
      [] ch = "r" -> "R" [] ch = "g" -> "G" [] OTHER -> ch

WUBRG == {"W", "U", "B", "R", "G"}

\* HYBRID_PATTERN matches the symbol: {[WUBRG2]/[WUBRG]}, in either case
IsHybridSymbol(symbol) ==
    Len(symbol) = 2 /\ Upper(symbol[1]) \in WUBRG \cup {"2"} /\ Upper(symbol[2]) \in WUBRG

\* SINGLE_COLOR_PATTERN matches the symbol: {[WUBRG]}, in either case
IsSingleColorSymbol(symbol) == Len(symbol) = 1 /\ Upper(symbol[1]) \in WUBRG

\* min() of a set of colour letters: the first in alphabetical order
MinColor(options) ==
    LET Alphabet == <<"B", "G", "R", "U", "W">>
    IN  Alphabet[CHOOSE i \in 1..5 :
                    Alphabet[i] \in options /\ \A j \in 1..(i - 1) : Alphabet[j] \notin options]

RECURSIVE CoverHybrids(_, _, _)
\* the loop over hybrid_options from position i on: a hybrid none of whose
\* colours is in min_colors adds the first of its colours
CoverHybrids(hybrid_options, i, min_colors) ==
    IF i > Len(hybrid_options) THEN min_colors
    ELSE CoverHybrids(hybrid_options, i + 1,
            IF min_colors \cap hybrid_options[i] # {} THEN min_colors
            ELSE min_colors \cup {MinColor(hybrid_options[i])})

\* parse_mana_requirements(mana_cost)
parse_mana_requirements(mana_cost) ==
    LET Single(symbol) == IsSingleColorSymbol(symbol)
        singles == Filter(mana_cost, Single)
        required_colors == {Upper(singles[i][1]) : i \in 1..Len(singles)}
        Hybrid(symbol) == IsHybridSymbol(symbol)
        Options(symbol) == {Upper(symbol[1]), Upper(symbol[2])} \cap WUBRG
        hybrid_options == Map(Filter(mana_cost, Hybrid), Options)
    IN  [is_hybrid |-> Len(hybrid_options) > 0,
         required_colors |-> required_colors,
         hybrid_options |-> hybrid_options,
         min_colors |-> CoverHybrids(hybrid_options, 1, required_colors)]

\* the symbols of the mana costs: generic, coloured in either case, hybrid of
\* two colours, of a colour and two generic, and Phyrexian
ManaSymbols ==
    {<<"3">>, <<"W">>, <<"u">>, <<"R", "W">>, <<"W", "U">>, <<"U", "B">>,
     <<"2", "W">>, <<"G", "P">>}

\* parse_mana_requirements(mana_cost) on the costs of up to MaxSymbols symbols
ParseManaRequirements ==
    /\ op = "input"
    /\ op' = "parse_mana_requirements"
    /\ \E mana_cost \in UNION {[1..n -> ManaSymbols] : n \in 0..MaxSymbols} :
          result' = [mana_cost |-> mana_cost \o <<>>,
                     parsed |-> parse_mana_requirements(mana_cost \o <<>>)]
    /\ UNCHANGED <<card_stats, target, thresholds, detector, scored, pairs, arch_ratings,
                   irregularity_detector, snapshot, calls, self_config>>

InitFunctions ==
    /\ op = "input"
    /\ card_stats = <<>>
    /\ Idle

NextFunctions ==
    \/ AssignGrade
    \/ WilsonScoreLowerBound
    \/ WilsonScoreLowerBoundAgain
    \/ CalculateFormatSpeed
    \/ ExpectedWr
    \/ BuildArchetype
    \/ ParseManaRequirements

SpecFunctions == InitFunctions /\ [][NextFunctions]_vars

----------------------------------------------------------------------------
(* data/cache.py: CacheManager, and data/loader.py:
   SeventeenLandsLoader.fetch_card_ratings. Time is in hours. result holds the
   cache directory (one file per key), the clock, the number of HTTP requests
   sent so far, and what the last call returned. *)

CacheTtlHours == 24     \* CacheManager(ttl_hours=24)
HoursPerTick == 12      \* the clock advances in steps of this many hours
MaxHours == 36          \* the clock stops here
MaxRequests == 3        \* no call is made once this many requests were sent

Expansions == {"FDN", "DSK"}

NoFile == [exists |-> FALSE, mtime |-> 0, data |-> <<>>]

\* CacheManager._is_valid(cache_path)
_is_valid(file, now) == file.exists /\ now - file.mtime < CacheTtlHours

\* CacheManager.get(*args): the cached data, or None (found is FALSE)
CacheGet(file, now) ==
    IF ~_is_valid(file, now) THEN [found |-> FALSE, data |-> <<>>]
    ELSE [found |-> TRUE, data |-> file.data]

\* CacheManager.set(data, *args): the file written now
CacheSet(data, now) == [exists |-> TRUE, mtime |-> now, data |-> data]

\* CardStats.from_17lands(d) for a row of the card ratings answer
from_17lands(d) ==
    CardStats(d.name, d.color, d.rarity, d.ever_drawn_win_rate,
              d.ever_drawn_game_count,
              IF IsNone(d.ever_drawn_win_rate) THEN 0
              ELSE (d.ever_drawn_game_count * d.ever_drawn_win_rate) \div 10000,
              70)

\* what the API can answer: an exception, an empty list, a list of rows
CardRatingResponses ==
    {[raises |-> "Timeout", json |-> <<>>],
     [raises |-> "nothing", json |-> <<>>],
     [raises |-> "nothing",
      json |-> <<[name |-> "card", color |-> <<"W">>, rarity |-> "common",
                  ever_drawn_win_rate |-> 5500, ever_drawn_game_count |-> 1000]>>]}

\* SeventeenLandsLoader.fetch_card_ratings(expansion, format, use_cache) with
\* the cache file of its key, at time now, when the API would answer response:
\* the file afterwards, whether a request was sent, what is returned or raised
fetch_card_ratings(file, now, use_cache, response) ==
    LET cached == CacheGet(file, now)
    IN  IF use_cache /\ cached.found /\ cached.data # <<>>
        THEN [file |-> file, requested |-> FALSE, raised |-> "nothing",
              value |-> Map(cached.data, from_17lands)]
        ELSE IF response.raises # "nothing"
        THEN [file |-> file, requested |-> TRUE, raised |-> response.raises,
              value |-> <<>>]
        ELSE [file |-> IF use_cache THEN CacheSet(response.json, now) ELSE file,
              requested |-> TRUE, raised |-> "nothing",
              value |-> Map(response.json, from_17lands)]

\* loader.fetch_card_ratings(expansion, "PremierDraft", use_cache). fetched
\* remembers per expansion when a call with use_cache last completed a request
FetchCardRatings ==
    /\ op # "input"
    /\ result.requests < MaxRequests
    /\ \E expansion \in Expansions : \E use_cache \in BOOLEAN :
       \E response \in CardRatingResponses :
       \E r \in {fetch_card_ratings(result.cache[expansion], result.now,
                                    use_cache, response)} :
          /\ op' = IF r.raised = "nothing" THEN "fetch_card_ratings" ELSE "raised"
          /\ result' = [result EXCEPT
                 !.cache[expansion] = r.file,
                 !.requests = IF r.requested THEN @ + 1 ELSE @,
                 !.fetched[expansion] =
                     IF use_cache /\ r.requested /\ r.raised = "nothing"
                     THEN result.now ELSE @,
                 !.call = [expansion |-> expansion, use_cache |-> use_cache],
                 !.returned = r.value]
    /\ UNCHANGED <<card_stats, target, thresholds, detector, scored, pairs, arch_ratings,
                   irregularity_detector, snapshot, calls, self_config>>

\* time passes
Tick ==
    /\ op # "input"
    /\ result.now + HoursPerTick <= MaxHours
    /\ op' = "tick"
    /\ result' = [result EXCEPT !.now = @ + HoursPerTick]
    /\ UNCHANGED <<card_stats, target, thresholds, detector, scored, pairs, arch_ratings,
                   irregularity_detector, snapshot, calls, self_config>>

\* cache.invalidate("card_ratings", expansion, "PremierDraft")
Invalidate ==
    /\ op # "input"
    /\ op' = "invalidate"
    /\ \E expansion \in Expansions :
          /\ result.cache[expansion].exists
          /\ result' = [result EXCEPT !.cache[expansion] = NoFile,
                                      !.fetched[expansion] = None]
    /\ UNCHANGED <<card_stats, target, thresholds, detector, scored, pairs, arch_ratings,
                   irregularity_detector, snapshot, calls, self_config>>

\* cache.clear_all()
ClearAll ==
    /\ op # "input"
    /\ op' = "clear_all"
    /\ \E expansion \in Expansions : result.cache[expansion].exists
    /\ result' = [result EXCEPT !.cache = [e \in Expansions |-> NoFile],
                                !.fetched = [e \in Expansions |-> None]]
    /\ UNCHANGED <<card_stats, target, thresholds, detector, scored, pairs, arch_ratings,
                   irregularity_detector, snapshot, calls, self_config>>

\* SeventeenLandsLoader(cache=CacheManager()) on an empty cache directory
InitCache ==
    /\ op = "init"
    /\ card_stats = <<>>
    /\ target = 0
    /\ thresholds = Nothing
    /\ detector = NoDetector
    /\ result = [cache |-> [e \in Expansions |-> NoFile], now |-> 0, requests |-> 0,
                 fetched |-> [e \in Expansions |-> None],
                 call |-> [expansion |-> "FDN", use_cache |-> FALSE],
                 returned |-> <<>>]
    /\ scored = <<>>
    /\ pairs = <<>>
    /\ arch_ratings = <<>>
    /\ irregularity_detector = NoDetector
    /\ snapshot = Nothing
    /\ calls = 0
    /\ self_config = Nothing

NextCache == FetchCardRatings \/ Tick \/ Invalidate \/ ClearAll

SpecCache == InitCache /\ [][NextCache]_vars

----------------------------------------------------------------------------
(* Properties of CardScorer, under SpecScorer *)

\* C2: for a card whose gih_wr is present (0 <= gih_wins <= gih_games, zero
\* games included) calculate_composite_score returns, whatever the card list,
\* a score between 0 and 100 and raises nothing.
C2_ScoreInRange ==
    (op = "calculate_composite_score" /\ HasWr(card_stats[target]))
        => (result >= 0 /\ result <= 100000)

\* a card with a win rate and no games has been scored against a list
C2_Witness ==
    /\ op = "calculate_composite_score"
    /\ HasWr(card_stats[target])
    /\ card_stats[target].gih_games = 0
    /\ Len(card_stats) > 1
    /\ result >= 0 /\ result <= 100000

----------------------------------------------------------------------------
(* Properties of IrregularityDetector.from_thresholds, under SpecThresholds *)

\* C6: from_thresholds keeps sleeper_z exactly when 0.3 <= sleeper_z <= 2.5 and
\* uses 1.0 otherwise, keeps trap_z exactly when -2.5 <= trap_z <= -0.3 and
\* uses -1.0 otherwise; so the detector has trap_z < 0 < sleeper_z.
C6_ThresholdsClamped ==
    op = "from_thresholds" =>
        /\ detector.sleeper_z =
              IF 300 <= thresholds.sleeper_z /\ thresholds.sleeper_z <= 2500
              THEN thresholds.sleeper_z ELSE 1000
        /\ detector.trap_z =
              IF -2500 <= thresholds.trap_z /\ thresholds.trap_z <= -300
              THEN thresholds.trap_z ELSE -1000
        /\ detector.trap_z < 0
        /\ 0 < detector.sleeper_z

\* a detector built from a sleeper_z above the range and a trap_z on its edge
C6_Witness ==
    /\ op = "from_thresholds"
    /\ thresholds.sleeper_z > 2500
    /\ detector.sleeper_z = 1000
    /\ thresholds.trap_z = -300
    /\ detector.trap_z = -300

----------------------------------------------------------------------------
(* Properties of IrregularityDetector, under SpecDetector *)

\* indices of the cards of a list that count towards the population
Qualifying(self, cards) ==
    {i \in 1..Len(cards) :
        cards[i].gih_games >= self.min_games /\ cards[i].gih_wr # None}

\* the elements of a list
Range(s) == {s[i] : i \in 1..Len(s)}

\* C1: a card whose gih_wr is absent comes out of score_all_cards with
\* composite_score 0.0, grade "N/A" and irregularity_type "no_data", is still so
\* after enrich_cards_with_viability and after analyze_all_cards, and is then
\* in the no_data list.
C1_NoDataCardStaysNoData ==
    op \in {"score_all_cards", "enrich_cards_with_viability", "analyze_all_cards"} =>
        /\ Len(scored) = Len(card_stats)
        /\ \A i \in 1..Len(scored) :
              scored[i].stats.gih_wr = None =>
                  /\ scored[i].composite_score = 0
                  /\ scored[i].grade = "N/A"
                  /\ scored[i].irregularity_type = "no_data"
                  /\ op = "analyze_all_cards" =>
                        scored[i] \in Range(result.no_data_cards)

\* a list with a card without win rate but with games went through scoring,
\* enrichment with archetype ratings and analysis
C1_Witness ==
    /\ op = "analyze_all_cards"
    /\ arch_ratings # <<>>
    /\ \E i \in 1..Len(scored) :
          /\ scored[i].stats.gih_wr = None
          /\ scored[i].stats.gih_games > 0
          /\ scored[i] \in Range(result.no_data_cards)
    /\ Len(result.sleepers) > 0

C4_OutputValid ==
    op = "detect_irregularity" => validate_output(result[1], result[2])

\* C5: with at least 20 qualifying cards and trap_z < 0 < sleeper_z, a card of
\* the population with the largest deviation is never "trap" and one with the
\* smallest deviation is never "sleeper".
C5_ExtremesNotMisclassified ==
    (/\ op = "detect_irregularity"
     /\ Cardinality(Qualifying(detector, card_stats)) >= 20
     /\ detector.trap_z < 0 /\ 0 < detector.sleeper_z
     /\ target \in Qualifying(detector, card_stats))
    => LET pop == Qualifying(detector, card_stats)
           dev(i) == _calculate_deviation(card_stats[i])
       IN  /\ (\A j \in pop : dev(j) <= dev(target)) => result[1] # "trap"
           /\ (\A j \in pop : dev(j) >= dev(target)) => result[1] # "sleeper"

\* the card with the strictly largest deviation of a population came out a sleeper
C5_Witness ==
    /\ op = "detect_irregularity"
    /\ Cardinality(Qualifying(detector, card_stats)) >= 20
    /\ detector.trap_z < 0 /\ 0 < detector.sleeper_z
    /\ target \in Qualifying(detector, card_stats)
    /\ \A j \in Qualifying(detector, card_stats) \ {target} :
          _calculate_deviation(card_stats[j]) < _calculate_deviation(card_stats[target])
    /\ result[1] = "sleeper"

\* the names of the cards of a list
Names(s) == {s[i].stats.name : i \in 1..Len(s)}

\* the cards of a list with a given irregularity_type
OfType(s, type) == {s[i] : i \in {j \in 1..Len(s) : s[j].irregularity_type = type}}

C9_Step ==
    op' = "analyze_all_cards" =>
        LET r == result'
        IN  /\ Len(r.all_cards) = Len(scored)
            /\ Names(r.sleepers) \cap Names(r.traps) = {}
            /\ Names(r.sleepers) \cap Names(r.no_data_cards) = {}
            /\ Names(r.traps) \cap Names(r.no_data_cards) = {}
            /\ Range(r.sleepers) = OfType(r.all_cards, "sleeper")
            /\ Range(r.traps) = OfType(r.all_cards, "trap")
            /\ Range(r.no_data_cards) = OfType(r.all_cards, "no_data")
            /\ Cardinality(Range(r.sleepers)) = Len(r.sleepers)
            /\ Cardinality(Range(r.traps)) = Len(r.traps)
            /\ Cardinality(Range(r.no_data_cards)) = Len(r.no_data_cards)
            /\ \A i \in 1..(Len(r.sleepers) - 1) :
                  r.sleepers[i].irregularity_z >= r.sleepers[i + 1].irregularity_z
            /\ \A i \in 1..(Len(r.traps) - 1) :
                  r.traps[i].irregularity_z <= r.traps[i + 1].irregularity_z
            /\ \A i \in 1..Len(scored) :
                  scored[i].irregularity_type = "no_data" =>
                      /\ r.all_cards[i].stats = scored[i].stats
                      /\ r.all_cards[i].irregularity_type = "no_data"
                      /\ r.all_cards[i].irregularity_z = scored[i].irregularity_z

\* C9: analyze_all_cards returns (all_cards, sleepers, traps, no_data): the three
\* lists are pairwise disjoint and hold exactly the cards of all_cards with that
\* final type, sleepers by z descending, traps by z ascending, and a card
\* tagged "no_data" on entry keeps its type and its z.
C9_AnalyzeAllCardsPartition == [][C9_Step]_vars

\* an analysis with several sleepers, several traps of different z and a card
\* without data
C9_Witness ==
    /\ op = "analyze_all_cards"
    /\ Len(result.sleepers) >= 2
    /\ Len(result.traps) >= 2
    /\ result.traps[1].irregularity_z < result.traps[2].irregularity_z
    /\ Len(result.no_data_cards) >= 1

----------------------------------------------------------------------------
(* Properties of ColorScorer, under SpecColor *)

\* C10: for every scored card list (the empty one included) and optional pair
\* list, calculate_all_color_strengths returns without raising exactly five
\* ColorStrength, one per colour of W, U, B, R, G, in non-increasing
\* strength_score, the one at position i with rank i.
C10_FiveRankedStrengths ==
    op # "input" =>
        /\ op = "calculate_all_color_strengths"
        /\ Len(result) = 5
        /\ {result[i].color : i \in 1..5} = {"W", "U", "B", "R", "G"}
        /\ \A i \in 1..4 : result[i].strength_score >= result[i + 1].strength_score
        /\ \A i \in 1..5 : result[i].rank = i

----------------------------------------------------------------------------
(* Properties of MetaAnalyzer.analyze, under Spec *)

\* C7: after analyze(), the sleeper_z and trap_z of snapshot.thresholds are the
\* values the detector actually used to classify; a calibrated value outside
\* the sanity range never appears in the snapshot.
C7_SnapshotThresholdsUsed ==
    op = "analyze" =>
        /\ snapshot.thresholds.sleeper_z = detector.sleeper_z
        /\ snapshot.thresholds.trap_z = detector.trap_z
        /\ snapshot.thresholds.sleeper_z >= 300 /\ snapshot.thresholds.sleeper_z <= 2500
        /\ snapshot.thresholds.trap_z >= -2500 /\ snapshot.thresholds.trap_z <= -300

\* C8: every analyze() call on one MetaAnalyzer classifies with the detector
\* built from the thresholds of its own calibration, whatever detector an
\* earlier call left behind.
C8_DetectorFromOwnCalibration ==
    op = "analyze" => detector = from_thresholds(thresholds)

----------------------------------------------------------------------------
(* Properties of MetaAnalyzer.detect_archetype_structure, under SpecArchetype *)

\* C11: when every colour pair of the input has fewer than 50 games,
\* detect_archetype_structure returns an empty main archetype list and no
\* splash variants, and does not divide by zero.
C11_LowSampleGivesNothing ==
    (op = "detect_archetype_structure"
         /\ \A i \in 1..Len(pairs) : pairs[i].games < ArchetypeMinGames)
        => /\ DOMAIN result = {"main_pairs", "variants_map"}
           /\ result.main_pairs = <<>>
           /\ \A colors \in DOMAIN result.variants_map :
                 result.variants_map[colors] = <<>>

----------------------------------------------------------------------------
(* Properties of Calibrator and percentile, under SpecCalibrator *)

\* C12: Calibrator.calibrate raises for no list of CardStats (the empty list,
\* lists without a usable win rate and lists with a card of 200 or more games
\* and no win rate included), and when no card has 200 or more games and a
\* win rate above zero it returns the default ThresholdConfig.
C12_CalibrateNeverRaises ==
    /\ op # "raised"
    /\ (op = "calibrate"
           /\ \A i \in 1..Len(card_stats) :
                 ~(CalibratorValid(card_stats[i]) /\ card_stats[i].gih_wr > 0))
          => thresholds = ThresholdConfig

\* C18: for the same cards and two calibrator configs that differ in
\* sleeper_percentile only, p1 <= p2, the sleeper_z calibrated under p1 is at
\* most the sleeper_z calibrated under p2.
C18_SleeperZMonotone ==
    (op = "calibrate_again"
     /\ self_config.sleeper_percentile <= result.config.sleeper_percentile)
        => thresholds.sleeper_z <= result.thresholds.sleeper_z

\* the same cards calibrated under a smaller and a larger percentile, with a
\* smaller and a larger sleeper_z
C18_Witness ==
    /\ op = "calibrate_again"
    /\ self_config.sleeper_percentile < result.config.sleeper_percentile
    /\ thresholds.sleeper_z < result.thresholds.sleeper_z
    /\ \A key \in DOMAIN self_config \ {"sleeper_percentile"} :
          self_config[key] = result.config[key]

\* C19: for a non-empty list percentile(values, 0) is its minimum,
\* percentile(values, 100) its maximum and, when its length is odd,
\* percentile(values, 50) the middle element of the sorted list; for the
\* empty list percentile returns 0.
C19_PercentileEnds ==
    op = "percentile"
        => LET values == result.values
               sorted == SortAsc(values, Identity)
           IN  /\ values = <<>> => result.percentile = 0
               /\ (values # <<>> /\ target = 0)
                     => /\ \E i \in 1..Len(values) : result.percentile = values[i]
                        /\ \A i \in 1..Len(values) : result.percentile <= values[i]
               /\ (values # <<>> /\ target = 100)
                     => /\ \E i \in 1..Len(values) : result.percentile = values[i]
                        /\ \A i \in 1..Len(values) : result.percentile >= values[i]
               /\ (Len(values) % 2 = 1 /\ target = 50)
                     => result.percentile = sorted[(Len(values) + 1) \div 2]

\* the median of an odd number of values given out of order
C19_Witness ==
    /\ op = "percentile"
    /\ target = 50
    /\ Len(result.values) >= 3 /\ Len(result.values) % 2 = 1
    /\ \E i \in 1..(Len(result.values) - 1) : result.values[i] > result.values[i + 1]
    /\ result.percentile # result.values[1]
    /\ result.percentile # result.values[Len(result.values)]

----------------------------------------------------------------------------
(* Further properties of CardScorer, under SpecScorer *)

\* C13: score_all_cards gives a composite_score of exactly 0 to no card whose
\* gih_wr is present; 0 is the score of cards without win rate only.
C13_ZeroReservedForNoData ==
    op = "score_all_cards"
        => \A i \in 1..Len(scored) :
              HasWr(scored[i].stats) => scored[i].composite_score # 0

----------------------------------------------------------------------------
(* Properties of assign_grade and wilson_score_lower_bound, under SpecFunctions *)

\* C14: for every score from 0 to 100 assign_grade returns the first grade of
\* A+ >= 90, A >= 80, B+ >= 70, B >= 60, C+ >= 50, C >= 40, D >= 30, else F
\* whose threshold the score meets, the boundary included: one of these eight
\* grades, never "N/A".
C14_GradeTable ==
    op = "assign_grade"
        => /\ result = IF target >= 90000 THEN "A+"
                       ELSE IF target >= 80000 THEN "A"
                       ELSE IF target >= 70000 THEN "B+"
                       ELSE IF target >= 60000 THEN "B"
                       ELSE IF target >= 50000 THEN "C+"
                       ELSE IF target >= 40000 THEN "C"
                       ELSE IF target >= 30000 THEN "D"
                       ELSE "F"
           /\ result \in {"A+", "A", "B+", "B", "C+", "C", "D", "F"}

\* a score exactly on a threshold has been graded
C14_Witness ==
    op = "assign_grade" /\ target = 70000 /\ result = "B+"

\* C20: wilson_score_lower_bound(wins, games) is 0.5 when games is 0; for the
\* same games > 0 and 0 <= wins <= games it does not decrease when wins grows;
\* and it is strictly below wins / games whenever 0 < wins < games.
C20_WilsonLowerBound ==
    op \in {"wilson_score_lower_bound", "wilson_score_lower_bound_again"}
        => /\ \A i \in 1..Len(result) :
                 /\ result[i].games = 0 => result[i].bound = 5000
                 /\ (0 < result[i].wins /\ result[i].wins < result[i].games)
                       => result[i].bound * result[i].games < result[i].wins * 10000
           /\ (Len(result) = 2 /\ result[1].games > 0 /\ result[1].wins <= result[2].wins)
                 => result[1].bound <= result[2].bound

\* two calls for RefGames games, one win apart: the bound grew and stayed
\* below the observed rate
C20_Witness ==
    /\ op = "wilson_score_lower_bound_again"
    /\ result[1].games = RefGames
    /\ result[1].wins = RefGames \div 2
    /\ result[2].wins = RefGames \div 2 + 1
    /\ result[1].bound < result[2].bound
    /\ result[2].bound * RefGames < result[2].wins * 10000

----------------------------------------------------------------------------
(* Properties of TrophyStats, under SpecTrophy *)

\* C15: when every key of archetype_stats is the colours of its entry,
\* TrophyStats.from_dict(s.to_dict()) has the analyzed_decks of s, the same
\* set of archetype_stats keys, and under every key the same trophy_count.
C15_TrophyRoundTrip ==
    LET before == self_config.archetype_stats
        after == result.archetype_stats
    IN  (/\ op = "from_dict"
         /\ \A i \in 1..Len(before) : before[i].key = before[i].value.colors)
            => /\ result.analyzed_decks = self_config.analyzed_decks
               /\ {after[i].key : i \in 1..Len(after)} = {before[i].key : i \in 1..Len(before)}
               /\ \A i \in 1..Len(before) : \E j \in 1..Len(after) :
                     /\ after[j].key = before[i].key
                     /\ after[j].value.trophy_count = before[i].value.trophy_count

\* two archetypes keyed by their colours came back in another order and with
\* a rounded splash rate
C15_Witness ==
    /\ op = "from_dict"
    /\ Len(self_config.archetype_stats) = MaxArchetypes
    /\ \A i \in 1..Len(self_config.archetype_stats) :
          self_config.archetype_stats[i].key = self_config.archetype_stats[i].value.colors
    /\ self_config.archetype_stats[1].value.trophy_count = 0
    /\ self_config.archetype_stats[2].value.trophy_count = 7
    /\ self_config.archetype_stats[2].value.splash_rate = 1234
    /\ self_config.analyzed_decks = 10
    /\ result.archetype_stats[1].key = self_config.archetype_stats[2].key
    /\ result.archetype_stats[1].value.splash_rate = 1230

----------------------------------------------------------------------------
(* Properties of SeventeenLandsLoader, under SpecLoader *)

\* C16: no failure of the colour ratings request (HTTP error status, timeout,
\* connection error) escapes fetch_color_ratings: given card_stats with a card
\* the fallback can use it returns the non-empty list of
\* compute_color_pairs_from_cards, every pair flagged is_computed, and
\* otherwise the empty list.
C16_RequestFailureNeverEscapes ==
    LET Usable(c) ==
            ~IsNone(c.deck_wr) /\ c.deck_wr > 0 /\ c.game_count >= FallbackMinGames
        Requested ==
            ~(self_config.use_cache /\ self_config.cached.found)
    IN  (op \in {"fetch_color_ratings", "raised"}
         /\ Requested /\ self_config.response.raises # "nothing")
            => /\ op = "fetch_color_ratings"
               /\ IF \E i \in 1..Len(card_stats) : Usable(card_stats[i])
                  THEN /\ result # <<>>
                       /\ \E reversed \in BOOLEAN :
                             result = compute_color_pairs_from_cards(card_stats, reversed)
                       /\ \A i \in 1..Len(result) : result[i].is_computed
                  ELSE result = <<>>

----------------------------------------------------------------------------
(* Properties of GeminiClient, under SpecGemini *)

\* C17: enrich_snapshot changes no field of the snapshot other than the llm_*
\* texts (cards, thresholds, colour strengths, archetypes, format indicators
\* and trophy statistics stay as they were), and a disabled client returns the
\* snapshot with no field changed.
C17_EnrichSnapshotFrame ==
    [][op' = "enrich_snapshot"
         => /\ DOMAIN snapshot' = DOMAIN snapshot
            /\ \A field \in DOMAIN snapshot \ LlmFields : snapshot'[field] = snapshot[field]
            /\ result' = snapshot'
            /\ ~self_config.enabled => snapshot' = snapshot]_vars

\* an enabled client has enriched a snapshot with cards and trophy statistics
\* through one response with both sections
C17_Witness ==
    /\ op = "enrich_snapshot"
    /\ self_config.enabled
    /\ snapshot.all_cards # <<>>
    /\ snapshot.trophy_stats # Nothing
    /\ snapshot.llm_color_strategy = <<"colors">>
    /\ snapshot.llm_format_overview =
          <<"intro", "format_header", "slow", "", "archetype_header", "WU", "">>
    /\ snapshot.llm_format_characteristics = <<"format_header", "slow">>
    /\ snapshot.llm_archetype_deep_dive = <<"archetype_header", "WU">>

----------------------------------------------------------------------------
(* Properties of the format level summary, under SpecFunctions *)

\* C21: for every card list and play/draw input the speed_label of the
\* FormatSpeed calculate_format_speed returns is one of the five labels
\* very fast, fast, normal, slow, very slow, with the direct API metrics and
\* with the tempo_ratio classifier and its aggro_advantage adjustment.
C21_FiveSpeedLabels ==
    op = "calculate_format_speed"
        => result.speed_label \in {"very_fast", "fast", "normal", "slow", "very_slow"}

\* C22: for every card the expected win rate of
\* IrregularityDetector._calculate_expected_wr equals the linear model
\* 0.50 + pick_rate * 0.12 - (alsa - 7) * 0.01 that calibrate() uses.
C22_SameExpectedWr ==
    op = "expected_wr" => result.detector = result.calibrator

----------------------------------------------------------------------------
(* Properties of MetaAnalyzer.analyze, statement by statement, under SpecPipeline *)

\* the stage of the data flow a statement of analyze() belongs to: thresholds 1,
\* scored cards 2, classified cards 3, color and archetype aggregates 4,
\* format level summary 5; the archetype structure comes from the loader's data
StageRank(stage) ==
    CASE stage = "detect_archetype_structure" -> 0
      [] stage = "calibrate" -> 1
      [] stage \in {"score_all_cards", "enrich_cards_with_variance"} -> 2
      [] stage = "analyze_all_cards" -> 3
      [] stage \in {"build_all_archetypes", "calculate_all_color_strengths"} -> 4
      [] stage = "calculate_format_speed" -> 5

\* C23, as stated: every analyze() run goes through calibrate, score, classify,
\* color and archetype aggregates, format level summary in this order: no
\* statement of an earlier stage runs after one of a later stage.
C23_StagesAsStated ==
    op # "init" =>
        \A i \in 1..Len(result.stages) : \A j \in i..Len(result.stages) :
            StageRank(result.stages[i]) <= StageRank(result.stages[j])

\* C23, amended: every analyze() run goes through its stages in the order
\* archetype structure, calibrate, score, enrich, classify, archetypes, format
\* level summary, color strengths, the color strengths coming last; and a stage
\* starts on the full output of the one before: thresholds exist when scoring
\* starts, every loaded card is scored, every scored card is classified into
\* exactly one of the lists, and the summary is of the classified cards.
C23_StagesInSourceOrder ==
    op # "init" =>
        LET n == Len(result.stages)
        IN  /\ n >= 1
            /\ result.stages = SubSeq(AnalyzeStages, 1, n)
            /\ op # "raised" => op = AnalyzeStages[n]
            /\ n >= 2 => thresholds # Nothing /\ irregularity_detector # NoDetector
            /\ n >= 3 => Len(scored) = Len(result.loaded)
            /\ n >= 5 => /\ Len(scored) = Len(result.loaded)
                         /\ \A i \in 1..Len(scored) :
                               scored[i].irregularity_type
                                   \in output_categories \cup {"no_data"}
            /\ n >= 6 => \A i \in 1..Len(result.archetypes) :
                            result.archetypes[i].rank = i
            /\ n >= 7 => /\ result.snapshot.all_cards = scored
                         /\ result.snapshot.archetypes = result.archetypes
                         /\ result.snapshot.thresholds = thresholds
            /\ n >= 8 => snapshot = result.snapshot /\ Len(snapshot.color_strengths) = 5

\* a second analyze() on the same analyzer returned its snapshot
C23_Witness ==
    /\ op = "calculate_all_color_strengths"
    /\ calls = 2
    /\ result.stages = AnalyzeStages
    /\ Len(result.archetypes) >= 1

\* the cards calibrate takes a variance from: enough games and at least three
\* archetype win rates
HasArchetypeVariance(c) ==
    c.gih_games >= CalibratorMinGames /\ Cardinality(DOMAIN c.archetype_wrs) >= 3

\* C24: in every analyze() run the archetype win rates of a card are in place
\* when calibrate reads the card, so that when cards with at least 200 games
\* and at least three archetype win rates exist, synergy_variance is the
\* percentile of their variances and stable_variance half of it.
C24_ArchetypeWrsBeforeCalibrate ==
    op = "calculate_all_color_strengths" =>
        /\ \A i \in 1..Len(card_stats) :
              result.read[i].archetype_wrs = card_stats[i].archetype_wrs
        /\ \A with_variance \in {Filter(card_stats, HasArchetypeVariance)} :
              with_variance # <<>> =>
                 \A variance \in {percentile(
                        Map(with_variance, LAMBDA c : DictVariance(c.archetype_wrs)),
                        DefaultCalibratorConfig.synergy_percentile)} :
                    /\ snapshot.thresholds.synergy_variance = variance
                    /\ snapshot.thresholds.stable_variance = variance \div 2

\* C25: no stage of the pipeline modifies the CardStats it is given: after
\* calibrate, score_all_cards, enrich_cards_with_viability and
\* analyze_all_cards every field of every CardStats of the loaded list,
\* archetype_wrs and archetype_games included, has the value it was loaded with.
C25_RawCardStatsKept ==
    op \in {"calibrate", "score_all_cards", "enrich_cards_with_variance",
            "analyze_all_cards", "build_all_archetypes", "calculate_format_speed",
            "calculate_all_color_strengths"}
        => card_stats = result.loaded

----------------------------------------------------------------------------
(* Further properties of MetaAnalyzer.detect_archetype_structure, under
   SpecArchetype *)

\* set(cp.colors)
ColorsOf(cp) == {cp.colors[i] : i \in 1..Len(cp.colors)}

\* v is one color more than m and has every color of m
SplashOf(m, v) ==
    ColorsOf(m) \subseteq ColorsOf(v) /\ Cardinality(ColorsOf(v)) = Cardinality(ColorsOf(m)) + 1

\* the pairs of color_pairs that are variant candidates: at least 50 games and
\* between 0.5 % and 2 % of the games
VariantCandidates(color_pairs) ==
    LET total_games == SumSeq(Map(color_pairs, LAMBDA cp : cp.games))
    IN  {cp \in Range(color_pairs) :
            /\ cp.games >= ArchetypeMinGames
            /\ cp.games * 10000 < MinShareThreshold * total_games
            /\ cp.games * 10000 >= VariantShareMin * total_games}

\* the variants recorded for main archetype m are those of the mains and
\* candidates v other than m that are a splash of m, each with the win rate
\* difference to m
C26_VariantsExact ==
    op = "detect_archetype_structure" =>
        \A mains \in {Range(result.main_pairs)} :
        \A m \in mains :
           \A v \in Range(pairs) :
              (\E k \in 1..Len(result.variants_map[m.colors]) :
                  LET variant == result.variants_map[m.colors][k]
                  IN  /\ variant.colors = v.colors
                      /\ variant.games = v.games
                      /\ variant.win_rate = v.win_rate
                      /\ variant.win_rate_delta = v.win_rate - m.win_rate)
              <=> (\E p \in mains :
                      /\ p.colors = m.colors
                      /\ v \in mains \cup VariantCandidates(pairs)
                      /\ v # p
                      /\ SplashOf(p, v)
                      /\ v.win_rate - p.win_rate = v.win_rate - m.win_rate)

\* C26: detect_archetype_structure records v as a splash variant of main m
\* exactly when v is a main or candidate pair other than m that has every
\* color of m and one more; every recorded variant carries
\* win_rate_delta = v.win_rate - m.win_rate and has at least 50 games and at
\* least 0.5 % of the games.
C26_SplashVariants ==
    /\ C26_VariantsExact
    /\ op = "detect_archetype_structure" =>
          \A total_games \in {SumSeq(Map(pairs, LAMBDA cp : cp.games))} :
          \A colors \in DOMAIN result.variants_map :
          \A k \in 1..Len(result.variants_map[colors]) :
             /\ result.variants_map[colors][k].games >= ArchetypeMinGames
             /\ result.variants_map[colors][k].games * 10000
                    >= VariantShareMin * total_games

----------------------------------------------------------------------------
(* Properties of ColorScorer.build_archetype, under SpecFunctions *)

\* the names build_archetype lists in the archetype a
ListedIn(a) ==
    Range(a.key_commons) \cup Range(a.key_uncommons) \cup Range(a.bombs)
        \cup Range(a.synergy_cards) \cup Range(a.trap_cards)

\* C27: every card build_archetype takes as a card of a two colour archetype
\* (listed in key_commons, key_uncommons, bombs, synergy_cards or trap_cards)
\* has no colour outside the two colours of the pair.
C27_ArchetypeCardsWithinPair ==
    op = "build_archetype" =>
        \A i \in 1..Len(scored) :
            scored[i].stats.name \in ListedIn(result)
                => \A k \in 1..Len(scored[i].stats.colors) :
                      HasColor(result.color_pair.colors, scored[i].stats.colors[k])

----------------------------------------------------------------------------
(* Further properties of MetaAnalyzer.analyze, under SpecPipeline *)

\* C28: the meta_share of every Archetype of the snapshot analyze() returns is
\* the games of its pair divided by the games of all two colour pairs the
\* loader supplied, whichever pairs detect_archetype_structure took as main.
C28_MetaShareOfLoadedPairs ==
    op = "calculate_all_color_strengths" =>
        \A total_games \in {SumSeq(Map(Filter(pairs, LAMBDA cp : Len(cp.colors) = 2),
                                       LAMBDA cp : cp.games))} :
        \A i \in 1..Len(snapshot.archetypes) :
            snapshot.archetypes[i].meta_share
                = (snapshot.archetypes[i].color_pair.games * 10000) \div total_games

----------------------------------------------------------------------------
(* Properties of parse_mana_requirements, under SpecFunctions *)

\* C29: for every mana cost min_colors contains the colour of every coloured
\* symbol that is not hybrid, has a colour of every hybrid symbol, and no
\* set of colours with these two properties is smaller.
C29_MinColorsMinimal ==
    op = "parse_mana_requirements" =>
        LET cost == result.mana_cost
            Covers(colors) ==
                \A i \in 1..Len(cost) :
                    /\ IsSingleColorSymbol(cost[i]) => Upper(cost[i][1]) \in colors
                    /\ IsHybridSymbol(cost[i]) =>
                          colors \cap {Upper(cost[i][1]), Upper(cost[i][2])} # {}
        IN  /\ Covers(result.parsed.min_colors)
            /\ \A colors \in SUBSET WUBRG :
                  Covers(colors)
                      => Cardinality(result.parsed.min_colors) <= Cardinality(colors)

----------------------------------------------------------------------------
(* Properties of SeventeenLandsLoader.fetch_card_ratings, under SpecCache *)

\* C30: once fetch_card_ratings(expansion, format, use_cache=True) has
\* completed an HTTP request, every later call for the same expansion and
\* format before the TTL has passed, without invalidate or clear in between,
\* is answered from the cache without a new request, whatever the answer held,
\* an empty list included; after the TTL the next call sends a request again.
C30_Step ==
    (op' \in {"fetch_card_ratings", "raised"} /\ result'.call.use_cache) =>
        LET at == result.fetched[result'.call.expansion]
        IN  /\ (~IsNone(at) /\ result.now - at < CacheTtlHours)
                  => result'.requests = result.requests
            /\ (~IsNone(at) /\ result.now - at >= CacheTtlHours)
                  => result'.requests = result.requests + 1

C30_ServedFromCache == [][C30_Step]_vars

====
